---- MODULE Spec2Model ----
(***************************************************************************)
(* Member lifecycle of the captcha bot: the SQLite store (database.py),    *)
(* the event handlers of TelegramBot (telegram_bot.py) and the list        *)
(* command of CommandHandler (commands.py).                                *)
(*                                                                         *)
(* Strings that the code inspects (message texts, captcha answers) are     *)
(* sequences of one-character strings.  Display names and handles are only *)
(* formatted into outgoing messages and are plain strings.  An outgoing    *)
(* message records its template and arguments and, for the list command,   *)
(* its exact length in characters.                                         *)
(***************************************************************************)
EXTENDS Integers, Sequences, FiniteSets, TLC

\* ------------------------------------------------------------------ bounds
MaxUserId == 2        \* user ids are 1..MaxUserId
MaxOperand == 2       \* captcha operands are drawn from 1..MaxOperand
MaxClock == 1         \* CURRENT_TIMESTAMP takes the values 0..MaxClock
MaxDeliveries == 2    \* the feed delivers one event at most this often in a row
MaxEntries == 2       \* longest blocked list handed to the renderer alone
MaxCycles == 2        \* leave/join cycles of a verified user that are counted
MaxFeed == 2          \* updates the platform holds for the bot in one run
MaxRestarts == 1      \* restarts of the process in one run

\* ------------------------------------------------------- program constants
None == "None"
VERIFIED == "verified"
PENDING == "pending"
BLOCKED == "blocked"
BotUserId == 1
TelegramLimit == 4096
ChunkLimit == 4000
HeaderLen == 22
ContinuedHeaderLen == 34
RejectionLen == 43
NoBannedLen == 24
SinUsernameLen == 12
TimestampLen == 19

UserIds == 1..MaxUserId
ChatIds == {100}
Handles == {None, "ann_b"}
Names == {"Ann"}
Operands == 1..MaxOperand

\* --------------------------------------------------------------- strings
Whitespace == {" ", "\t", "\n"}
UpperCase == <<"A", "B", "C", "D", "E", "F", "G", "H", "I", "J", "K", "L", "M",
               "N", "O", "P", "Q", "R", "S", "T", "U", "V", "W", "X", "Y", "Z">>
LowerCase == <<"a", "b", "c", "d", "e", "f", "g", "h", "i", "j", "k", "l", "m",
               "n", "o", "p", "q", "r", "s", "t", "u", "v", "w", "x", "y", "z">>
DigitChars == <<"0", "1", "2", "3", "4", "5", "6", "7", "8", "9">>

\* str(n) for n >= 0
RECURSIVE Str(_)
Str(n) == IF n < 10 THEN <<DigitChars[n + 1]>>
          ELSE Str(n \div 10) \o <<DigitChars[(n % 10) + 1]>>

\* len(str(n))
Digits(n) == Len(Str(n))

\* str.strip()
RECURSIVE LStrip(_)
LStrip(s) == IF s # <<>> /\ Head(s) \in Whitespace THEN LStrip(Tail(s)) ELSE s
RECURSIVE RStrip(_)
RStrip(s) == IF s # <<>> /\ s[Len(s)] \in Whitespace
             THEN RStrip(SubSeq(s, 1, Len(s) - 1)) ELSE s
Strip(s) == RStrip(LStrip(s))

\* str.startswith(c) for a one-character prefix
StartsWith(s, c) == s # <<>> /\ Head(s) = c

\* str.lower()
LowerChar(c) == IF \E i \in 1..26 : UpperCase[i] = c
                THEN LowerCase[CHOOSE i \in 1..26 : UpperCase[i] = c] ELSE c
Lower(s) == [i \in 1..Len(s) |-> LowerChar(s[i])]

\* text.split()[0] of a text whose first character is not whitespace
RECURSIVE FirstToken(_)
FirstToken(s) == IF s = <<>> \/ Head(s) \in Whitespace THEN <<>>
                 ELSE <<Head(s)>> \o FirstToken(Tail(s))

\* ----------------------------------------------------------------- state
VARIABLES
    users,      \* table users: user_id -> row
    pending,    \* table pending_verifications: user_id -> row
    now,        \* CURRENT_TIMESTAMP of the store
    last,       \* the event handled last
    trace,      \* store operations and outbound calls of that handling, in order
    raised,     \* the exception that handling ended with, or None
    before,     \* the two tables as they were before that handling
    first,      \* the run of deliveries of that event: how many there were, the
                \* tables before the first one, the traces of the earlier ones
    listing,    \* the blocked list handed to the renderer alone
    fresh,      \* of the direct callers of Database: has every call so far been
                \* an add_* on an id no earlier call was made on
    scan,       \* UserScanner.scan_all_users: where it stands, the users it
                \* read, and how many of them its loop has passed
    returns,    \* per user: has the user left while verified, and how many
                \* times has the user come back since being verified
    feed,       \* the updates the platform has or will have for the bot
    arrived,    \* how many of them have happened so far
    confirmed,  \* the platform forgets updates with a smaller update_id
    bot_user_id, \* TelegramBot.bot_user_id
    pc,         \* where TelegramBot.run stands
    offset,     \* run's local offset
    updates,    \* run's local updates: the batch fetched last, as feed indices
    pos,        \* how many updates of the batch the for loop has handled
    response,   \* how the last get_updates call ended
    completed,  \* the updates whose handling has returned at least once
    failed,     \* the updates whose handling has raised at least once
    boots,      \* how often the process was restarted
    boot        \* the two tables as they were at the last restart

loopvars == <<feed, arrived, confirmed, bot_user_id, pc, offset, updates, pos,
              response, completed, failed, boots, boot>>

vars == <<users, pending, now, last, trace, raised, before, first, listing, fresh, scan,
          returns, loopvars>>

\* ------------------------------------------------------ database.py: store
\* One row of table users.
UserRow(user_name, username, status, chat_id, t) ==
    [user_name |-> user_name, username |-> username, status |-> status,
     chat_id |-> chat_id, created_at |-> t, updated_at |-> t]

\* One row of table pending_verifications.
PendingRow(chat_id, user_name, question, answer) ==
    [chat_id |-> chat_id, user_name |-> user_name,
     question |-> question, answer |-> answer]

\* INSERT OR REPLACE of row r under primary key id.
Replace(T, id, r) == [x \in (DOMAIN T) \cup {id} |-> IF x = id THEN r ELSE T[x]]

\* DELETE of the rows of T whose key is in ids.
Delete(T, ids) == [x \in (DOMAIN T) \ ids |-> T[x]]

is_user_verified(U, user_id) ==
    user_id \in DOMAIN U /\ U[user_id].status = VERIFIED

is_user_blocked(U, user_id) ==
    user_id \in DOMAIN U /\ U[user_id].status = BLOCKED

\* The fetched row, as a set with no or one element.
get_pending_verification(P, user_id) ==
    IF user_id \in DOMAIN P THEN {P[user_id]} ELSE {}

\* upsert_user with INSERT OR IGNORE in place of INSERT OR REPLACE: an existing
\* row keeps its status.
upsert_user_ignores_existing(U, user_id, user_name, status, username, chat_id, t) ==
    IF user_id \in DOMAIN U THEN U
    ELSE Replace(U, user_id, UserRow(user_name, username, status, chat_id, t))

\* INSERT OR REPLACE names neither created_at nor updated_at's old value: the
\* old row is deleted and the new one takes both timestamps from the clock.
upsert_user(U, user_id, user_name, status, username, chat_id, t) ==
    Replace(U, user_id, UserRow(user_name, username, status, chat_id, t))

add_verified_user(U, user_id, user_name, username, chat_id, t) ==
    upsert_user(U, user_id, user_name, VERIFIED, username, chat_id, t)

add_blocked_user(U, user_id, user_name, username, chat_id, t) ==
    upsert_user(U, user_id, user_name, BLOCKED, username, chat_id, t)

\* add_pending_verification with INSERT OR IGNORE for the challenge: a row that
\* is already there keeps its question and answer.
add_pending_verification_keeps_challenge(U, P, user_id, chat_id, user_name, question, answer, t) ==
    [users |-> upsert_user(U, user_id, user_name, PENDING, None, chat_id, t),
     pending |-> IF user_id \in DOMAIN P THEN P
                 ELSE Replace(P, user_id,
                              PendingRow(chat_id, user_name, question, answer))]

\* Two connections, one after the other: the user row, then the challenge.
add_pending_verification(U, P, user_id, chat_id, user_name, question, answer, t) ==
    [users |-> upsert_user(U, user_id, user_name, PENDING, None, chat_id, t),
     pending |-> Replace(P, user_id,
                         PendingRow(chat_id, user_name, question, answer))]

remove_pending_verification(P, user_id) == Delete(P, {user_id})

\* Both deletes run in one transaction with foreign keys on: deleting a users
\* row that a pending_verifications row still references fails the first
\* statement, and the transaction is rolled back.
remove_user(U, P, user_id) ==
    IF is_user_blocked(U, user_id) /\ user_id \in DOMAIN P
    THEN [users |-> U, pending |-> P, raised |-> "IntegrityError"]
    ELSE [users |-> IF is_user_blocked(U, user_id) THEN Delete(U, {user_id}) ELSE U,
          pending |-> Delete(P, {user_id}),
          raised |-> None]

\* get_user_counts with its second query run on table users.
get_user_counts_all_rows(U, P) ==
    [verified |-> Cardinality({x \in DOMAIN U : U[x].status = VERIFIED}),
     blocked |-> Cardinality({x \in DOMAIN U : U[x].status = BLOCKED}),
     pending |-> Cardinality({x \in DOMAIN U : U[x].status = PENDING}),
     pending_verifications |-> Cardinality(DOMAIN U)]

\* counts starts with a zero for each status and takes the grouped counts;
\* the second query counts the challenge rows.
get_user_counts(U, P) ==
    [verified |-> Cardinality({x \in DOMAIN U : U[x].status = VERIFIED}),
     blocked |-> Cardinality({x \in DOMAIN U : U[x].status = BLOCKED}),
     pending |-> Cardinality({x \in DOMAIN U : U[x].status = PENDING}),
     pending_verifications |-> Cardinality(DOMAIN P)]

\* A User object built from a users row.
User(id, r) ==
    [id |-> id, name |-> r.user_name, username |-> r.username, status |-> r.status,
     chat_id |-> r.chat_id, created_at |-> r.created_at, updated_at |-> r.updated_at]

\* The orders in which ORDER BY created_at DESC may return the rows of ids:
\* rows of equal created_at come in an order SQL leaves open.
NewestFirst(U, ids) ==
    {s \in [1..Cardinality(ids) -> ids] :
        /\ \A i, j \in DOMAIN s : i # j => s[i] # s[j]
        /\ \A i, j \in DOMAIN s : i < j => U[s[i]].created_at >= U[s[j]].created_at}

get_blocked_users(U) ==
    {[i \in DOMAIN s |-> User(s[i], U[s[i]])] :
        s \in NewestFirst(U, {x \in DOMAIN U : U[x].status = BLOCKED})}

\* get_all_users_for_scanning without its WHERE clause.
get_all_users_for_scanning_unfiltered(U) ==
    {[i \in DOMAIN s |-> User(s[i], U[s[i]])] : s \in NewestFirst(U, DOMAIN U)}

get_all_users_for_scanning(U) ==
    {[i \in DOMAIN s |-> User(s[i], U[s[i]])] :
        s \in NewestFirst(U, {x \in DOMAIN U : U[x].status # BLOCKED})}

\* ------------------------------------------- telegram_bot.py: trace entries
DbOp(op, user_id) == [op |-> op, user_id |-> user_id]
ApiCall(op, chat_id, user_id) == [op |-> op, chat_id |-> chat_id, user_id |-> user_id]
SendMessage(chat_id, text) == [op |-> "send_message", chat_id |-> chat_id, text |-> text]
GetAdmins(chat_id, result) ==
    [op |-> "get_chat_administrators", chat_id |-> chat_id, result |-> result]

Outcome(U, P, tr, exc) == [users |-> U, pending |-> P, trace |-> tr, raised |-> exc]

\* What getChatAdministrators answers: the administrators' ids, or a failure.
AdminAnswers == {[ok |-> FALSE]} \cup {[ok |-> TRUE, ids |-> S] : S \in SUBSET UserIds}

\* Mutant: a failed lookup counts as "is an admin".
is_user_admin_fail_open(admins, user_id) == ~admins.ok \/ user_id \in admins.ids

\* is_user_admin: a failed lookup is caught and counts as "not an admin".
is_user_admin(admins, user_id) == admins.ok /\ user_id \in admins.ids

\* generate_captcha: the captchas random.randint can draw; the question is
\* captcha_question formatted with a and b.
generate_captcha ==
    {[question |-> <<a, b>>, answer |-> Str(a + b)] : a \in Operands, b \in Operands}

\* A handler returns the set of outcomes it can end with: one for each value
\* the random draws and the platform's answers can take along its path.

\* handle_bot_user past its "already blocked" check: restrict, record, kick
\* and tell the chat.
BlockBot(U, P, t, chat_id, user_id, user_name, username) ==
    {Outcome(add_blocked_user(U, user_id, user_name, username, None, t), P,
             <<DbOp("is_user_blocked", user_id),
               ApiCall("restrict_user", chat_id, user_id),
               DbOp("add_blocked_user", user_id),
               ApiCall("kick_chat_member", chat_id, user_id),
               SendMessage(chat_id,
                   [tpl |-> "bot_detected_message", user_name |-> user_name,
                    username |-> IF username # None THEN username
                                 ELSE "sin_username"])>>,
             None)}

\* Mutant: no "already blocked" check.
handle_bot_user_unguarded(U, P, t, chat_id, user_id, user_name, username) ==
    BlockBot(U, P, t, chat_id, user_id, user_name, username)

handle_bot_user(U, P, t, chat_id, user_id, user_name, username) ==
    IF is_user_blocked(U, user_id)
    THEN {Outcome(U, P, <<DbOp("is_user_blocked", user_id)>>, None)}
    ELSE BlockBot(U, P, t, chat_id, user_id, user_name, username)

\* handle_left_member past its cleanup of the challenge: P1 is the challenge
\* table after it and reads the operations so far.
LeaveBlocked(U, P1, user_id, reads) ==
    IF is_user_blocked(U, user_id)
    THEN LET r == remove_user(U, P1, user_id)
         IN  {Outcome(r.users, r.pending,
                      Append(reads, DbOp("remove_user", user_id)), r.raised)}
    ELSE {Outcome(U, P1, reads, None)}

\* Mutant: the challenge is not cleaned up before the blocked user is removed.
handle_left_member_keeps_challenge(U, P, chat_id, user_id, user_name) ==
    LeaveBlocked(U, P, user_id,
                 <<DbOp("get_pending_verification", user_id),
                   DbOp("is_user_verified", user_id),
                   DbOp("is_user_blocked", user_id)>>)

handle_left_member(U, P, chat_id, user_id, user_name) ==
    LET had == get_pending_verification(P, user_id) # {}
        P1 == IF had THEN remove_pending_verification(P, user_id) ELSE P
        reads == <<DbOp("get_pending_verification", user_id)>>
                 \o (IF had THEN <<DbOp("remove_pending_verification", user_id)>>
                     ELSE <<>>)
                 \o <<DbOp("is_user_verified", user_id),
                      DbOp("is_user_blocked", user_id)>>
    IN  LeaveBlocked(U, P1, user_id, reads)

\* The store reads of handle_new_member for a member who is not verified.
JoinReads(user_id) ==
    <<DbOp("is_user_verified", user_id),
      DbOp("get_user_counts", user_id),
      DbOp("is_user_verified", user_id),
      DbOp("get_pending_verification", user_id),
      DbOp("get_pending_verification", user_id)>>

\* handle_new_member for a member without a challenge: restrict, draw a
\* captcha, record it and send it.
ChallengeMember(U, P, t, chat_id, user_id, user_name) ==
    {LET w == add_pending_verification(U, P, user_id, chat_id, user_name,
                                       c.question, c.answer, t)
     IN  Outcome(w.users, w.pending,
             JoinReads(user_id)
             \o <<ApiCall("restrict_user", chat_id, user_id),
                  DbOp("add_pending_verification", user_id),
                  SendMessage(chat_id,
                      [tpl |-> "welcome_message", user_name |-> user_name,
                       question |-> c.question])>>,
             None) : c \in generate_captcha}

\* Mutant: a member who already has a challenge is challenged anew.
handle_new_member_regenerates(U, P, t, chat_id, user_id, user_name, is_bot, username) ==
    IF user_id = BotUserId THEN {Outcome(U, P, <<>>, None)}
    ELSE IF is_bot
    THEN handle_bot_user(U, P, t, chat_id, user_id, user_name, username)
    ELSE IF is_user_verified(U, user_id)
    THEN {Outcome(U, P, <<DbOp("is_user_verified", user_id)>>, None)}
    ELSE ChallengeMember(U, P, t, chat_id, user_id, user_name)

\* Mutant: a verified member is treated like any other member.
handle_new_member_forgets_verified(U, P, t, chat_id, user_id, user_name, is_bot, username) ==
    IF user_id = BotUserId THEN {Outcome(U, P, <<>>, None)}
    ELSE IF is_bot
    THEN handle_bot_user(U, P, t, chat_id, user_id, user_name, username)
    ELSE IF get_pending_verification(P, user_id) # {}
    THEN {Outcome(U, P,
             Append(JoinReads(user_id), SendMessage(chat_id,
                 [tpl |-> "welcome_message", user_name |-> user_name,
                  question |-> P[user_id].question])),
             None)}
    ELSE ChallengeMember(U, P, t, chat_id, user_id, user_name)

handle_new_member(U, P, t, chat_id, user_id, user_name, is_bot, username) ==
    IF user_id = BotUserId THEN {Outcome(U, P, <<>>, None)}
    ELSE IF is_bot
    THEN handle_bot_user(U, P, t, chat_id, user_id, user_name, username)
    ELSE IF is_user_verified(U, user_id)
    THEN {Outcome(U, P, <<DbOp("is_user_verified", user_id)>>, None)}
    ELSE
    LET pending_data == get_pending_verification(P, user_id)
    IN  IF pending_data # {}
        THEN LET d == CHOOSE r \in pending_data : TRUE
             IN  {Outcome(U, P,
                     Append(JoinReads(user_id), SendMessage(chat_id,
                         [tpl |-> "welcome_message", user_name |-> user_name,
                          question |-> d.question])),
                     None)}
        ELSE ChallengeMember(U, P, t, chat_id, user_id, user_name)

\* ------------------------------------------------ the list-blocked command
\* len() of one entry of the list: "{i}. {name} ({username_display})\n",
\* "   ID: {id}\n" and "   Banned: {created_at[:19]}\n\n".
UserLineLen(i, user) ==
    Digits(i) + 2 + Len(user.name) + 2
    + (IF user.username # None THEN 1 + Len(user.username) ELSE SinUsernameLen)
    + 2 + 7 + Digits(user.id) + 1 + 11 + TimestampLen + 2

\* A chunk of the list: the ids of the users whose entries it holds, and its
\* length.
Chunk(entries, len) == [entries |-> entries, len |-> len]

\* Mutant: the line that closes a chunk is not carried into the next one.
RECURSIVE SplitChunks_drops(_, _, _, _)
SplitChunks_drops(blocked_users, i, chunks, current) ==
    IF i > Len(blocked_users)
    THEN IF current.len > 0 THEN Append(chunks, current) ELSE chunks
    ELSE LET line == UserLineLen(i, blocked_users[i])
         IN  IF current.len + line > ChunkLimit
             THEN SplitChunks_drops(blocked_users, i + 1, Append(chunks, current),
                                    Chunk(<<>>, 0))
             ELSE SplitChunks_drops(blocked_users, i + 1, chunks,
                                    Chunk(Append(current.entries, blocked_users[i].id),
                                          current.len + line))

\* The loop over message_lines[1:]: a line that would take the current chunk
\* past ChunkLimit closes the chunk and starts the next one.
RECURSIVE SplitChunks(_, _, _, _)
SplitChunks(blocked_users, i, chunks, current) ==
    IF i > Len(blocked_users)
    THEN IF current.len > 0 THEN Append(chunks, current) ELSE chunks
    ELSE LET line == UserLineLen(i, blocked_users[i])
         IN  IF current.len + line > ChunkLimit
             THEN SplitChunks(blocked_users, i + 1, Append(chunks, current),
                              Chunk(<<blocked_users[i].id>>, line))
             ELSE SplitChunks(blocked_users, i + 1, chunks,
                              Chunk(Append(current.entries, blocked_users[i].id),
                                    current.len + line))

RECURSIVE SumLines(_, _)
SumLines(blocked_users, i) ==
    IF i > Len(blocked_users) THEN 0
    ELSE UserLineLen(i, blocked_users[i]) + SumLines(blocked_users, i + 1)

\* len(full_message)
FullMessageLen(blocked_users) == HeaderLen + SumLines(blocked_users, 1)

ListMessage(chat_id, continued, entries, len) ==
    SendMessage(chat_id, [tpl |-> "banned_list", continued |-> continued,
                          entries |-> entries, len |-> len])

\* The messages sent for a non-empty list: the whole list in one message when
\* it fits TelegramLimit, else one message per chunk, the later ones under
\* the "(continued)" header.
SendBlockedList(chat_id, blocked_users) ==
    IF FullMessageLen(blocked_users) <= TelegramLimit
    THEN <<ListMessage(chat_id, FALSE,
                       [i \in 1..Len(blocked_users) |-> blocked_users[i].id],
                       FullMessageLen(blocked_users))>>
    ELSE LET chunks == SplitChunks(blocked_users, 1, <<>>, Chunk(<<>>, HeaderLen))
         IN  [k \in 1..Len(chunks) |->
                 IF k = 1
                 THEN ListMessage(chat_id, FALSE, chunks[k].entries, chunks[k].len)
                 ELSE ListMessage(chat_id, TRUE, chunks[k].entries,
                                  ContinuedHeaderLen + chunks[k].len)]

OnlyAdmins(chat_id) ==
    SendMessage(chat_id, [tpl |-> "only_admins", len |-> RejectionLen])

NoBanned(chat_id) ==
    SendMessage(chat_id, [tpl |-> "no_banned", len |-> NoBannedLen])

\* The part of the command that follows the administrator check.
ListAsAdmin(U, P, chat_id, user_id, admins, blocked_users) ==
    IF blocked_users = <<>>
    THEN Outcome(U, P, <<GetAdmins(chat_id, admins),
                         DbOp("get_blocked_users", user_id), NoBanned(chat_id)>>, None)
    ELSE Outcome(U, P, <<GetAdmins(chat_id, admins),
                         DbOp("get_blocked_users", user_id)>>
                       \o SendBlockedList(chat_id, blocked_users), None)

\* commands.py: the rows are User objects and are read by attribute.
CommandHandler_handle_list_banned_command(U, P, chat_id, user_id) ==
    UNION {IF ~is_user_admin(admins, user_id)
           THEN {Outcome(U, P, <<GetAdmins(chat_id, admins), OnlyAdmins(chat_id)>>, None)}
           ELSE {ListAsAdmin(U, P, chat_id, user_id, admins, blocked_users) :
                     blocked_users \in get_blocked_users(U)} :
           admins \in AdminAnswers}

\* telegram_bot.py: the same command, but each row is subscripted
\* (user['username']), which a User object does not support: the first entry
\* raises TypeError before anything is sent.
BotListAsAdmin(U, P, chat_id, user_id, admins, blocked_users) ==
    IF blocked_users = <<>>
    THEN Outcome(U, P, <<GetAdmins(chat_id, admins),
                         DbOp("get_blocked_users", user_id), NoBanned(chat_id)>>, None)
    ELSE Outcome(U, P, <<GetAdmins(chat_id, admins),
                         DbOp("get_blocked_users", user_id)>>, "TypeError")

handle_list_banned_command(U, P, chat_id, user_id) ==
    UNION {IF ~is_user_admin(admins, user_id)
           THEN {Outcome(U, P, <<GetAdmins(chat_id, admins), OnlyAdmins(chat_id)>>, None)}
           ELSE {BotListAsAdmin(U, P, chat_id, user_id, admins, blocked_users) :
                     blocked_users \in get_blocked_users(U)} :
           admins \in AdminAnswers}

BannedCommand == <<"/", "b", "a", "n", "n", "e", "d">>
ListBannedCommand == <<"/", "l", "i", "s", "t", "b", "a", "n", "n", "e", "d">>

handle_command(U, P, chat_id, user_id, text) ==
    LET command == Lower(FirstToken(text))
    IN  IF command = BannedCommand \/ command = ListBannedCommand
        THEN handle_list_banned_command(U, P, chat_id, user_id)
        ELSE {Outcome(U, P, <<>>, None)}

\* Mutant: the sender is recorded verified before the restriction is lifted.
CheckAnswer_records_first(U, P, t, chat_id, user_id, reply, d) ==
    IF reply = d.answer
    THEN {Outcome(add_verified_user(U, user_id, d.user_name, None, None, t),
                  remove_pending_verification(P, user_id),
                  <<DbOp("get_pending_verification", user_id),
                    DbOp("add_verified_user", user_id),
                    DbOp("remove_pending_verification", user_id),
                    ApiCall("unrestrict_user", chat_id, user_id),
                    SendMessage(chat_id, [tpl |-> "success_message",
                                          user_name |-> d.user_name])>>,
                  None)}
    ELSE {Outcome(U, P,
                  <<DbOp("get_pending_verification", user_id),
                    SendMessage(chat_id, [tpl |-> "error_message",
                                          question |-> d.question])>>,
                  None)}

\* Mutant: a wrong answer is met with a new captcha, stored in place of the
\* old one.
CheckAnswer_rechallenges(U, P, t, chat_id, user_id, reply, d) ==
    IF reply = d.answer
    THEN {Outcome(add_verified_user(U, user_id, d.user_name, None, None, t),
                  remove_pending_verification(P, user_id),
                  <<DbOp("get_pending_verification", user_id),
                    ApiCall("unrestrict_user", chat_id, user_id),
                    DbOp("add_verified_user", user_id),
                    DbOp("remove_pending_verification", user_id),
                    SendMessage(chat_id, [tpl |-> "success_message",
                                          user_name |-> d.user_name])>>,
                  None)}
    ELSE {LET w == add_pending_verification(U, P, user_id, chat_id, d.user_name,
                                            c.question, c.answer, t)
          IN  Outcome(w.users, w.pending,
                  <<DbOp("get_pending_verification", user_id),
                    DbOp("add_pending_verification", user_id),
                    SendMessage(chat_id, [tpl |-> "error_message",
                                          question |-> c.question])>>,
                  None) : c \in generate_captcha}

\* handle_message for a sender whose challenge row is d: reply is the text
\* that is compared with the expected answer.
CheckAnswer(U, P, t, chat_id, user_id, reply, d) ==
    IF reply = d.answer
    THEN {Outcome(add_verified_user(U, user_id, d.user_name, None, None, t),
                  remove_pending_verification(P, user_id),
                  <<DbOp("get_pending_verification", user_id),
                    ApiCall("unrestrict_user", chat_id, user_id),
                    DbOp("add_verified_user", user_id),
                    DbOp("remove_pending_verification", user_id),
                    SendMessage(chat_id, [tpl |-> "success_message",
                                          user_name |-> d.user_name])>>,
                  None)}
    ELSE {Outcome(U, P,
                  <<DbOp("get_pending_verification", user_id),
                    SendMessage(chat_id, [tpl |-> "error_message",
                                          question |-> d.question])>>,
                  None)}

\* Mutant: the text is compared as it came, not stripped.
handle_message_unstripped(U, P, t, chat_id, user_id, is_bot, text) ==
    IF is_bot THEN {Outcome(U, P, <<>>, None)}
    ELSE IF StartsWith(text, "/")
    THEN handle_command(U, P, chat_id, user_id, text)
    ELSE LET user_data == get_pending_verification(P, user_id)
         IN  IF user_data = {}
             THEN {Outcome(U, P, <<DbOp("get_pending_verification", user_id)>>, None)}
             ELSE CheckAnswer(U, P, t, chat_id, user_id, text,
                              CHOOSE r \in user_data : TRUE)

\* Mutant: the sender's is_bot flag is not looked at.
handle_message_answers_bots(U, P, t, chat_id, user_id, is_bot, text) ==
    IF StartsWith(text, "/")
    THEN handle_command(U, P, chat_id, user_id, text)
    ELSE LET user_data == get_pending_verification(P, user_id)
         IN  IF user_data = {}
             THEN {Outcome(U, P, <<DbOp("get_pending_verification", user_id)>>, None)}
             ELSE CheckAnswer(U, P, t, chat_id, user_id, Strip(text),
                              CHOOSE r \in user_data : TRUE)

\* Mutant: a text that starts with "/" is compared like any other text.
handle_message_commands_as_answers(U, P, t, chat_id, user_id, is_bot, text) ==
    IF is_bot THEN {Outcome(U, P, <<>>, None)}
    ELSE LET user_data == get_pending_verification(P, user_id)
         IN  IF user_data = {}
             THEN {Outcome(U, P, <<DbOp("get_pending_verification", user_id)>>, None)}
             ELSE CheckAnswer(U, P, t, chat_id, user_id, Strip(text),
                              CHOOSE r \in user_data : TRUE)

handle_message(U, P, t, chat_id, user_id, is_bot, text) ==
    IF is_bot THEN {Outcome(U, P, <<>>, None)}
    ELSE IF StartsWith(text, "/")
    THEN handle_command(U, P, chat_id, user_id, text)
    ELSE LET user_data == get_pending_verification(P, user_id)
         IN  IF user_data = {}
             THEN {Outcome(U, P, <<DbOp("get_pending_verification", user_id)>>, None)}
             ELSE CheckAnswer(U, P, t, chat_id, user_id, Strip(text),
                              CHOOSE r \in user_data : TRUE)

\* ---------------------------------------------------------------- events
Event(kind, chat_id, user_id, user_name, is_bot, username, text) ==
    [kind |-> kind, chat_id |-> chat_id, user_id |-> user_id, user_name |-> user_name,
     is_bot |-> is_bot, username |-> username, text |-> text]

NoEvent == Event("none", 0, 0, "", FALSE, None, <<>>)

\* Message texts: every answer a captcha can have, one of them also padded
\* with whitespace, a number spelled as a word, an empty text, and commands.
AnswerTexts == {Str(n) : n \in 2..(2 * MaxOperand)}
Padded(s) == <<" ">> \o s \o <<" ", "\n">>
Texts == AnswerTexts \cup {Padded(Str(MaxOperand + 1))}
         \cup {<<"t", "h", "r", "e", "e">>, <<>>,
               BannedCommand,
               <<"/", "L", "i", "s", "t", "B", "a", "n", "n", "e", "d", " ", "x">>,
               <<"/", "s", "t", "a", "r", "t">>}

\* The run of deliveries that starts with the handling of an event in store
\* (U, P), and the run after one more delivery of the same event.
FirstDelivery(U, P) == [n |-> 1, users |-> U, pending |-> P, trace |-> <<>>]
NextDelivery(f, tr) == [f EXCEPT !.n = f.n + 1, !.trace = f.trace \o tr]

\* scan_users.py is not running.
NoScan == [pc |-> "idle", users |-> <<>>, pos |-> 0]

\* No user has left or come back yet.
NoReturns == [u \in UserIds |-> [left |-> FALSE, n |-> 0]]

\* The leave/join cycles of verified users after event ev was handled and
\* left table U: a Leave of a verified user is remembered, a non-flagged Join
\* of a user who had left counts as one return, and a user who is no longer
\* verified starts anew.
Returned(r, ev, U) ==
    [u \in UserIds |->
        IF ~is_user_verified(U, u) THEN [left |-> FALSE, n |-> 0]
        ELSE IF ev.user_id # u THEN r[u]
        ELSE IF ev.kind = "leave" THEN [left |-> TRUE, n |-> r[u].n]
        ELSE IF ev.kind = "join" /\ r[u].left
        THEN [left |-> FALSE, n |-> IF r[u].n < MaxCycles THEN r[u].n + 1 ELSE MaxCycles]
        ELSE r[u]]

\* The polling loop is not part of the behaviours that hand events to the
\* handlers directly: its variables keep these values.
LoopIdle ==
    /\ feed = <<>>
    /\ arrived = 0
    /\ confirmed = 0
    /\ bot_user_id = BotUserId
    /\ pc = "fetch"
    /\ offset = 0
    /\ updates = <<>>
    /\ pos = 0
    /\ response = None
    /\ completed = {}
    /\ failed = {}
    /\ boots = 0
    /\ boot = [users |-> <<>>, pending |-> <<>>]

Init ==
    /\ users = <<>>
    /\ pending = <<>>
    /\ now = 0
    /\ last = NoEvent
    /\ trace = <<>>
    /\ raised = None
    /\ before = [users |-> <<>>, pending |-> <<>>]
    /\ first = FirstDelivery(<<>>, <<>>)
    /\ listing = <<>>
    /\ fresh = TRUE
    /\ scan = NoScan
    /\ returns = NoReturns
    /\ LoopIdle

\* The handling of event ev ended with outcome out.
Handled(ev, out) ==
    /\ ev = last => first.n < MaxDeliveries
    /\ users' = out.users
    /\ pending' = out.pending
    /\ trace' = out.trace
    /\ raised' = out.raised
    /\ last' = ev
    /\ before' = [users |-> users, pending |-> pending]
    /\ first' = IF ev = last THEN NextDelivery(first, trace)
                ELSE FirstDelivery(users, pending)
    /\ returns' = Returned(returns, ev, out.users)
    /\ UNCHANGED <<now, listing, fresh, scan, loopvars>>

\* A member of new_chat_members is handed to handle_new_member.
Join ==
    \E chat_id \in ChatIds, user_id \in UserIds, user_name \in Names,
       is_bot \in BOOLEAN, username \in Handles :
        \E out \in handle_new_member(users, pending, now, chat_id, user_id, user_name,
                                      is_bot, username) :
            Handled(Event("join", chat_id, user_id, user_name, is_bot, username, <<>>),
                    out)

\* A left_chat_member is handed to handle_left_member.
Leave ==
    \E chat_id \in ChatIds, user_id \in UserIds, user_name \in Names :
        \E out \in handle_left_member(users, pending, chat_id, user_id, user_name) :
            Handled(Event("leave", chat_id, user_id, user_name, FALSE, None, <<>>), out)

\* Any other message is handed to handle_message.
Message ==
    \E chat_id \in ChatIds, user_id \in UserIds, is_bot \in BOOLEAN, text \in Texts :
        \E out \in handle_message(users, pending, now, chat_id, user_id, is_bot, text) :
            Handled(Event("message", chat_id, user_id, "", is_bot, None, text), out)

\* CommandHandler.handle_list_banned_command is called with a chat and a caller.
ListBanned ==
    \E chat_id \in ChatIds, user_id \in UserIds :
        \E out \in CommandHandler_handle_list_banned_command(users, pending,
                                                              chat_id, user_id) :
            Handled(Event("list_banned", chat_id, user_id, "", FALSE, None, <<>>), out)

\* Time passes between two events.
Tick ==
    /\ now < MaxClock
    /\ now' = now + 1
    /\ UNCHANGED <<users, pending, last, trace, raised, before, first, listing, fresh, scan,
                   returns, loopvars>>

Next == Join \/ Leave \/ Message \/ ListBanned \/ Tick

Spec == Init /\ [][Next]_vars

\* ------------------------------------------- the renderer of the list alone
\* A display name of n characters.
RECURSIVE NameOfLen(_)
NameOfLen(n) ==
    IF n = 0 THEN ""
    ELSE LET half == NameOfLen(n \div 2)
         IN  half \o half \o (IF n % 2 = 1 THEN "x" ELSE "")

\* Name lengths around the limits: an entry that fits a chunk with room to
\* spare, one of half a message, and the two around the longest entry whose
\* "(continued)" message still has TelegramLimit characters.
NameLens == {3, 2000, 4002, 4003}
RenderIds == {2, 31, 1234567890}
RenderUsers ==
    {User(id, UserRow(NameOfLen(n), h, BLOCKED, None, 0)) :
        id \in RenderIds, n \in NameLens, h \in Handles}

\* The lists get_blocked_users can return: no user id twice.
RenderLists ==
    UNION {{s \in [1..n -> RenderUsers] :
               \A i, j \in 1..n : i # j => s[i].id # s[j].id} : n \in 0..MaxEntries}

RenderInit ==
    /\ users = <<>>
    /\ pending = <<>>
    /\ now = 0
    /\ last = NoEvent
    /\ trace = <<>>
    /\ raised = None
    /\ before = [users |-> <<>>, pending |-> <<>>]
    /\ first = FirstDelivery(<<>>, <<>>)
    /\ listing \in RenderLists
    /\ fresh = TRUE
    /\ scan = NoScan
    /\ returns = NoReturns
    /\ LoopIdle

\* The administrator check has passed and get_blocked_users has returned
\* listing: the rest of the command, in commands.py and in telegram_bot.py.
RenderByCommandHandler ==
    \E chat_id \in ChatIds, user_id \in UserIds :
        /\ Handled(Event("list_banned", chat_id, user_id, "", FALSE, None, <<>>),
                   ListAsAdmin(users, pending, chat_id, user_id,
                               [ok |-> TRUE, ids |-> {user_id}], listing))

RenderByBot ==
    \E chat_id \in ChatIds, user_id \in UserIds :
        /\ Handled(Event("message", chat_id, user_id, "", FALSE, None, BannedCommand),
                   BotListAsAdmin(users, pending, chat_id, user_id,
                                  [ok |-> TRUE, ids |-> {user_id}], listing))

RenderNext == RenderByCommandHandler \/ RenderByBot

SpecRender == RenderInit /\ [][RenderNext]_vars

\* ------------------------------------------------ telegram_bot.py: run
\* bot_user_id before get_me has answered.
NoBotUserId == 0

\* update_id of the i-th update of the feed: the ids grow along the feed and
\* are not consecutive.
UpdateId(i) == 2 * i

\* One entry of new_chat_members.
Member(user_id, user_name, is_bot, username) ==
    [user_id |-> user_id, user_name |-> user_name, is_bot |-> is_bot,
     username |-> username]

\* An update by the keys handle_update looks at: "new_chat_members",
\* "left_chat_member", a message with neither ("message"), a message that
\* has no "from" ("message_without_from"), and an update that has no
\* "message" ("other").
Update(kind, chat_id, members, text) ==
    [kind |-> kind, chat_id |-> chat_id, members |-> members, text |-> text]

\* The updates of a feed: a flagged and a non-flagged Join, the bot being
\* added together with a member, an answer, the list command, a message that
\* names no sender, a Leave and an update that is no message.
RunUpdates ==
    LET u == MaxUserId
        c == CHOOSE x \in ChatIds : TRUE
    IN  {Update("new_chat_members", c, <<Member(u, "Ann", TRUE, "ann_b")>>, <<>>),
         Update("new_chat_members", c,
                <<Member(BotUserId, "Ann", FALSE, None), Member(u, "Ann", FALSE, None)>>,
                <<>>),
         Update("message", c, <<Member(u, "Ann", FALSE, None)>>, Str(MaxOperand + 1)),
         Update("message", c, <<Member(u, "Ann", FALSE, None)>>, BannedCommand),
         Update("message_without_from", c, <<>>, <<"h", "i">>),
         Update("left_chat_member", c, <<Member(u, "Ann", FALSE, None)>>, <<>>),
         Update("other", c, <<>>, <<>>)}

\* The for loop over new_chat_members: each member is handled after the one
\* before it has been handled, and an exception ends the loop.
RECURSIVE HandleMembers(_, _, _, _, _)
HandleMembers(U, P, t, chat_id, members) ==
    IF members = <<>> THEN {Outcome(U, P, <<>>, None)}
    ELSE LET m == Head(members)
         IN  UNION {IF o.raised # None THEN {o}
                    ELSE {Outcome(r.users, r.pending, o.trace \o r.trace, r.raised) :
                             r \in HandleMembers(o.users, o.pending, t, chat_id,
                                                 Tail(members))} :
                    o \in handle_new_member(U, P, t, chat_id, m.user_id, m.user_name,
                                            m.is_bot, m.username)}

\* handle_update: message["from"] of a message without sender raises KeyError
\* in handle_message.
handle_update(U, P, t, update) ==
    IF update.kind = "other" THEN {Outcome(U, P, <<>>, None)}
    ELSE IF update.kind = "left_chat_member"
    THEN handle_left_member(U, P, update.chat_id, update.members[1].user_id,
                            update.members[1].user_name)
    ELSE IF update.kind = "new_chat_members"
    THEN HandleMembers(U, P, t, update.chat_id, update.members)
    ELSE IF update.kind = "message_without_from"
    THEN {Outcome(U, P, <<>>, "KeyError")}
    ELSE handle_message(U, P, t, update.chat_id, update.members[1].user_id,
                        update.members[1].is_bot, update.text)

\* The event an update stands for; for new_chat_members, its last member.
EventOf(update) ==
    IF update.kind = "new_chat_members"
    THEN LET m == update.members[Len(update.members)]
         IN  Event("join", update.chat_id, m.user_id, m.user_name, m.is_bot,
                   m.username, <<>>)
    ELSE IF update.kind = "left_chat_member"
    THEN Event("leave", update.chat_id, update.members[1].user_id,
               update.members[1].user_name, FALSE, None, <<>>)
    ELSE IF update.kind = "message"
    THEN Event("message", update.chat_id, update.members[1].user_id, "",
               update.members[1].is_bot, None, update.text)
    ELSE Event(update.kind, update.chat_id, 0, "", FALSE, None, update.text)

Max(a, b) == IF a >= b THEN a ELSE b

\* The result of getUpdates(offset) when n updates have happened and the
\* platform has forgotten those below conf: the feed indices of the updates
\* with update_id >= offset that it still holds, oldest first.
get_updates(off, conf, n) ==
    LET held == {i \in 1..n : UpdateId(i) >= Max(off, conf)}
        start == n - Cardinality(held) + 1
    IN  [k \in 1..Cardinality(held) |-> start + k - 1]

\* Mutant: offset is assigned before handle_update is awaited.
offset_after_early(off, update_id, exc) == update_id + 1

\* Mutant: offset is set to the handled update_id itself.
offset_after_unincremented(off, update_id, exc) ==
    IF exc = None THEN update_id ELSE off

\* offset after handle_update(update) ended with exc: the assignment
\* offset = update["update_id"] + 1 is reached only when the await returns.
offset_after(off, update_id, exc) ==
    IF exc = None THEN update_id + 1 ELSE off

\* Mutant: the tables are created anew.
init_database_recreates(U, P) == [users |-> <<>>, pending |-> <<>>]

\* init_database on an existing file: CREATE ... IF NOT EXISTS leaves the
\* tables and their rows as they are.
init_database(U, P) == [users |-> U, pending |-> P]

\* A TelegramBot has been constructed on an empty database and run() is
\* called; the platform will have the updates of feed for it.
RunInit ==
    /\ users = <<>>
    /\ pending = <<>>
    /\ now = 0
    /\ last = NoEvent
    /\ trace = <<>>
    /\ raised = None
    /\ before = [users |-> <<>>, pending |-> <<>>]
    /\ first = FirstDelivery(<<>>, <<>>)
    /\ listing = <<>>
    /\ fresh = TRUE
    /\ scan = NoScan
    /\ returns = NoReturns
    /\ feed \in [1..MaxFeed -> RunUpdates]
    /\ arrived = 0
    /\ confirmed = 0
    /\ bot_user_id = NoBotUserId
    /\ pc = "start"
    /\ offset = 0
    /\ updates = <<>>
    /\ pos = 0
    /\ response = None
    /\ completed = {}
    /\ failed = {}
    /\ boots = 0
    /\ boot = [users |-> <<>>, pending |-> <<>>]

\* run, before its loop: get_me answers, offset = 0.
GetMe ==
    /\ pc = "start"
    /\ bot_user_id' = BotUserId
    /\ offset' = 0
    /\ pc' = "fetch"
    /\ UNCHANGED <<users, pending, now, last, trace, raised, before, first, listing, fresh, scan,
                   returns, feed, arrived, confirmed, updates, pos, response,
                   completed, failed, boots, boot>>

\* get_updates raises (the API answers "not ok", or the request fails): the
\* loop's except branch logs it and sleeps 5 seconds.
GetUpdatesFails ==
    /\ pc = "fetch"
    /\ response' = "error"
    /\ pc' = "backoff"
    /\ UNCHANGED <<users, pending, now, last, trace, raised, before, first, listing, fresh, scan,
                   returns, feed, arrived, confirmed, bot_user_id, offset, updates,
                   pos, completed, failed, boots, boot>>

\* get_updates returns: the empty list after a ReadTimeout, else what the
\* platform holds.  An empty batch is followed by sleep(1).
GetUpdatesReturns ==
    /\ pc = "fetch"
    /\ \E r \in {"timeout", "ok"} :
          /\ response' = r
          /\ updates' = IF r = "timeout" THEN <<>>
                        ELSE get_updates(offset, confirmed, arrived)
    /\ confirmed' = Max(confirmed, offset)
    /\ pos' = 0
    /\ pc' = IF updates' = <<>> THEN "sleep" ELSE "handle"
    /\ UNCHANGED <<users, pending, now, last, trace, raised, before, first, listing, fresh, scan,
                   returns, feed, arrived, bot_user_id, offset, completed, failed,
                   boots, boot>>

\* One turn of the for loop: handle_update is awaited for the next update of
\* the batch; when it returns, offset moves past the update, and when it
\* raises, the except branch logs it and sleeps 5 seconds.
HandleUpdate ==
    /\ pc = "handle"
    /\ LET i == updates[pos + 1]
       IN  \E out \in handle_update(users, pending, now, feed[i]) :
              /\ users' = out.users
              /\ pending' = out.pending
              /\ trace' = out.trace
              /\ raised' = out.raised
              /\ last' = EventOf(feed[i])
              /\ before' = [users |-> users, pending |-> pending]
              /\ offset' = offset_after(offset, UpdateId(i), out.raised)
              /\ IF out.raised = None
                 THEN /\ pos' = pos + 1
                      /\ pc' = IF pos + 1 = Len(updates) THEN "fetch" ELSE "handle"
                      /\ completed' = completed \cup {i}
                      /\ failed' = failed
                 ELSE /\ pos' = pos
                      /\ pc' = "backoff"
                      /\ completed' = completed
                      /\ failed' = failed \cup {i}
    /\ UNCHANGED <<now, first, listing, fresh, scan, returns, feed, arrived, confirmed,
                   bot_user_id, updates, response, boots, boot>>

\* asyncio.sleep(1) after an empty batch or asyncio.sleep(5) after an
\* exception is over: the while loop starts its next turn.
Wake ==
    /\ pc \in {"sleep", "backoff"}
    /\ pc' = "fetch"
    /\ UNCHANGED <<users, pending, now, last, trace, raised, before, first, listing, fresh, scan,
                   returns, feed, arrived, confirmed, bot_user_id, offset, updates,
                   pos, response, completed, failed, boots, boot>>

\* The next update of the feed happens in the chat.
Arrive ==
    /\ arrived < Len(feed)
    /\ arrived' = arrived + 1
    /\ UNCHANGED <<users, pending, now, last, trace, raised, before, first, listing, fresh, scan,
                   returns, feed, confirmed, bot_user_id, pc, offset, updates, pos,
                   response, completed, failed, boots, boot>>

\* The process ends and is started again on the same database file:
\* TelegramBot.__init__ opens the database, reads the counts, and run() is
\* called.
Restart ==
    /\ boots < MaxRestarts
    /\ boots' = boots + 1
    /\ LET db == init_database(users, pending)
       IN  /\ users' = db.users
           /\ pending' = db.pending
    /\ boot' = [users |-> users, pending |-> pending]
    /\ before' = [users |-> users, pending |-> pending]
    /\ last' = Event("restart", 0, 0, "", FALSE, None, <<>>)
    /\ trace' = <<DbOp("get_user_counts", 0)>>
    /\ raised' = None
    /\ bot_user_id' = NoBotUserId
    /\ pc' = "start"
    /\ offset' = 0
    /\ updates' = <<>>
    /\ pos' = 0
    /\ response' = None
    /\ UNCHANGED <<now, first, listing, fresh, scan, returns, feed, arrived, confirmed,
                   completed, failed>>

RunNext ==
    \/ GetMe
    \/ GetUpdatesFails
    \/ GetUpdatesReturns
    \/ HandleUpdate
    \/ Wake
    \/ Arrive
    \/ Restart

SpecRun == RunInit /\ [][RunNext]_vars

\* The one task of the event loop always gets to run, the updates of the
\* feed do happen, and get_updates does not fail for ever.
SpecRunLive ==
    /\ RunInit /\ [][RunNext]_vars
    /\ WF_vars(GetMe) /\ WF_vars(HandleUpdate) /\ WF_vars(Wake) /\ WF_vars(Arrive)
    /\ SF_vars(GetUpdatesReturns /\ response' = "ok")

\* ------------------------------------------- database.py: a store that fails
\* A call of Database method call that raised sqlite3.OperationalError
\* ("database is locked" after busy_timeout); stage names the statement that
\* failed when the method runs more than one transaction.
Failed(call, user_id, stage) ==
    [op |-> "failed", call |-> call, user_id |-> user_id, stage |-> stage]

StoreOps == {"is_user_verified", "is_user_blocked", "get_pending_verification",
             "get_user_counts", "get_blocked_users", "add_blocked_user",
             "add_verified_user", "add_pending_verification",
             "remove_pending_verification", "remove_user"}

\* The tables after the store calls of trace tr have committed, one after the
\* other, starting from (U, P); the rows written are those of outcome out.
RECURSIVE Committed(_, _, _, _)
Committed(U, P, out, tr) ==
    IF tr = <<>> THEN [users |-> U, pending |-> P]
    ELSE LET e == Head(tr)
         IN  IF e.op \in {"add_blocked_user", "add_verified_user"}
             THEN Committed(Replace(U, e.user_id, out.users[e.user_id]), P, out, Tail(tr))
             ELSE IF e.op = "add_pending_verification"
             THEN Committed(Replace(U, e.user_id, out.users[e.user_id]),
                            Replace(P, e.user_id, out.pending[e.user_id]), out, Tail(tr))
             ELSE IF e.op = "remove_pending_verification"
             THEN Committed(U, remove_pending_verification(P, e.user_id), out, Tail(tr))
             ELSE IF e.op = "remove_user"
             THEN LET r == remove_user(U, P, e.user_id)
                  IN  Committed(r.users, r.pending, out, Tail(tr))
             ELSE Committed(U, P, out, Tail(tr))

\* The ways the handling that would end with outcome out ends when one of its
\* store calls raises: everything before the call has happened, nothing after
\* it does.  add_pending_verification commits the users row in upsert_user's
\* connection before it opens the one that writes the challenge, so it can
\* also fail with the users row written.
StoreFailures(U, P, out) ==
    UNION {LET e == out.trace[k]
               done == SubSeq(out.trace, 1, k - 1)
               s == Committed(U, P, out, done)
           IN  {Outcome(s.users, s.pending,
                        Append(done, Failed(e.op, e.user_id, "first")),
                        "OperationalError")}
               \cup (IF e.op = "add_pending_verification"
                     THEN {Outcome(Replace(s.users, e.user_id, out.users[e.user_id]),
                                   s.pending,
                                   Append(done, Failed(e.op, e.user_id, "second")),
                                   "OperationalError")}
                     ELSE {}) :
           k \in {j \in DOMAIN out.trace : out.trace[j].op \in StoreOps}}

\* The outcomes of a handler when any one store call may fail.
OnBusyStore(U, P, outs) ==
    outs \cup UNION {StoreFailures(U, P, out) : out \in outs}

JoinOnBusyStore ==
    \E chat_id \in ChatIds, user_id \in UserIds, user_name \in Names,
       is_bot \in BOOLEAN, username \in Handles :
        \E out \in OnBusyStore(users, pending,
                       handle_new_member(users, pending, now, chat_id, user_id,
                                         user_name, is_bot, username)) :
            Handled(Event("join", chat_id, user_id, user_name, is_bot, username, <<>>),
                    out)

LeaveOnBusyStore ==
    \E chat_id \in ChatIds, user_id \in UserIds, user_name \in Names :
        \E out \in OnBusyStore(users, pending,
                       handle_left_member(users, pending, chat_id, user_id, user_name)) :
            Handled(Event("leave", chat_id, user_id, user_name, FALSE, None, <<>>), out)

MessageOnBusyStore ==
    \E chat_id \in ChatIds, user_id \in UserIds, is_bot \in BOOLEAN, text \in Texts :
        \E out \in OnBusyStore(users, pending,
                       handle_message(users, pending, now, chat_id, user_id, is_bot,
                                      text)) :
            Handled(Event("message", chat_id, user_id, "", is_bot, None, text), out)

NextFaults == JoinOnBusyStore \/ LeaveOnBusyStore \/ MessageOnBusyStore

SpecFaults == Init /\ [][NextFaults]_vars

\* ------------------------------------------ database.py: the methods alone
\* A caller other than the handlers (a test, the scanner) calls one method of
\* Database; the call is recorded like an event, under the method's name.
\* args holds the arguments of the call that the event record has no field for.
Called(method, chat_id, user_id, user_name, username, args, U, P, exc) ==
    /\ users' = U
    /\ pending' = P
    /\ trace' = <<[op |-> method, user_id |-> user_id, args |-> args]>>
    /\ raised' = exc
    /\ last' = Event(method, chat_id, user_id, user_name, FALSE, username, <<>>)
    /\ before' = [users |-> users, pending |-> pending]
    /\ fresh' = (/\ fresh
                 /\ method \in {"add_verified_user", "add_blocked_user",
                                "add_pending_verification"}
                 /\ user_id \notin DOMAIN users)
    /\ UNCHANGED <<now, first, listing, scan, returns, loopvars>>

AddVerifiedUser ==
    \E user_id \in UserIds, user_name \in Names, username \in Handles :
        /\ Called("add_verified_user", 0, user_id, user_name, username, <<>>,
                  add_verified_user(users, user_id, user_name, username, None, now),
                  pending, None)

AddBlockedUser ==
    \E user_id \in UserIds, user_name \in Names, username \in Handles :
        /\ Called("add_blocked_user", 0, user_id, user_name, username, <<>>,
                  add_blocked_user(users, user_id, user_name, username, None, now),
                  pending, None)

AddPendingVerification ==
    \E user_id \in UserIds, chat_id \in ChatIds, user_name \in Names,
       c \in generate_captcha :
        /\ LET w == add_pending_verification(users, pending, user_id, chat_id,
                                             user_name, c.question, c.answer, now)
           IN  Called("add_pending_verification", chat_id, user_id, user_name, None,
                      <<c.question, c.answer>>, w.users, w.pending, None)

RemovePendingVerification ==
    \E user_id \in UserIds :
        /\ Called("remove_pending_verification", 0, user_id, "", None, <<>>,
                  users, remove_pending_verification(pending, user_id), None)

RemoveUser ==
    \E user_id \in UserIds :
        /\ LET r == remove_user(users, pending, user_id)
           IN  Called("remove_user", 0, user_id, "", None, <<>>,
                      r.users, r.pending, r.raised)

NextStore ==
    \/ AddVerifiedUser
    \/ AddBlockedUser
    \/ AddPendingVerification
    \/ RemovePendingVerification
    \/ RemoveUser
    \/ Tick

SpecStore == Init /\ [][NextStore]_vars

\* ------------------------------------------ telegram_bot.py: run is stopped
\* The calls a handler awaits: while one of them is in flight, run's task is
\* suspended inside the handler.
AwaitedOps == {"send_message", "restrict_user", "unrestrict_user",
               "kick_chat_member", "get_chat_administrators"}

\* The ways the handling that would end with outcome out ends when the
\* operator's signal cancels run's task: asyncio raises CancelledError at the
\* await the task is suspended in.  Everything before that call has happened
\* and nothing after it does; whether the request in flight went out is open.
\* No except clause of run or of the handlers catches CancelledError.
Cancellations(U, P, out) ==
    UNION {LET s == Committed(U, P, out, SubSeq(out.trace, 1, k - 1))
           IN  {Outcome(s.users, s.pending, SubSeq(out.trace, 1, k - 1),
                        "CancelledError"),
                Outcome(s.users, s.pending, SubSeq(out.trace, 1, k),
                        "CancelledError")} :
           k \in {j \in DOMAIN out.trace : out.trace[j].op \in AwaitedOps}}

\* The signal arrives while run awaits get_me, get_updates or a sleep.
InterruptLoop ==
    /\ pc \in {"start", "fetch", "sleep", "backoff"}
    /\ pc' = "stopped"
    /\ UNCHANGED <<users, pending, now, last, trace, raised, before, first, listing,
                   fresh, scan, returns, feed, arrived, confirmed, bot_user_id, offset,
                   updates, pos, response, completed, failed, boots, boot>>

\* The signal arrives while run awaits handle_update, which awaits one of the
\* handler's calls: the handler, the for loop and the while loop are left.
InterruptHandler ==
    /\ pc = "handle"
    /\ LET i == updates[pos + 1]
       IN  \E out \in handle_update(users, pending, now, feed[i]) :
              \E cut \in Cancellations(users, pending, out) :
                  /\ users' = cut.users
                  /\ pending' = cut.pending
                  /\ trace' = cut.trace
                  /\ raised' = cut.raised
                  /\ last' = EventOf(feed[i])
                  /\ before' = [users |-> users, pending |-> pending]
    /\ pc' = "stopped"
    /\ UNCHANGED <<now, first, listing, fresh, scan, returns, feed, arrived, confirmed,
                   bot_user_id, offset, updates, pos, response, completed, failed,
                   boots, boot>>

StopNext ==
    \/ GetMe
    \/ GetUpdatesFails
    \/ GetUpdatesReturns
    \/ HandleUpdate
    \/ Wake
    \/ Arrive
    \/ InterruptLoop
    \/ InterruptHandler

SpecStop == RunInit /\ [][StopNext]_vars

\* ------------------------------------ bot_detection.py, commands.py: scans
\* What get_user_info returns for a user: None, a dict with "error", or the
\* user's getChat result, of which is_likely_bot reads is_bot and whether
\* username or first_name matches one of its patterns.
NoResponse == [kind |-> "none", is_bot |-> FALSE, indicator |-> FALSE]
ApiError == [kind |-> "error", is_bot |-> FALSE, indicator |-> FALSE]
UserInfos ==
    {NoResponse, ApiError}
    \cup {[kind |-> "user", is_bot |-> b, indicator |-> i] :
             b \in BOOLEAN, i \in BOOLEAN}

\* is_likely_bot: (is_bot, reason)
is_likely_bot(user_info) ==
    IF user_info.is_bot THEN [is_bot |-> TRUE, reason |-> "is_bot field"]
    ELSE IF user_info.indicator THEN [is_bot |-> TRUE, reason |-> "indicator"]
    ELSE [is_bot |-> FALSE, reason |-> "No bot indicators found"]

\* Mutant: a failed lookup counts as "is a bot".
scan_user_for_bot_fail_closed(user_id, user_info) ==
    IF user_info.kind # "user"
    THEN [user_id |-> user_id, is_bot |-> TRUE, reason |-> "lookup failed"]
    ELSE [user_id |-> user_id, is_bot |-> is_likely_bot(user_info).is_bot,
          reason |-> is_likely_bot(user_info).reason]

\* BotDetector.scan_user_for_bot, given what get_user_info returned.
scan_user_for_bot(user_id, user_info) ==
    IF user_info.kind # "user"
    THEN [user_id |-> user_id, is_bot |-> FALSE, reason |-> "API_ERROR"]
    ELSE [user_id |-> user_id, is_bot |-> is_likely_bot(user_info).is_bot,
          reason |-> is_likely_bot(user_info).reason]

\* Trace entry: the lookup of one user and what the detector made of it.
Lookup(user_info, scan_result) ==
    [op |-> "scan_user_for_bot", user_id |-> scan_result.user_id,
     failed |-> user_info.kind # "user",
     is_bot |-> scan_result.is_bot, reason |-> scan_result.reason]

Notice(chat_id, tpl) == SendMessage(chat_id, [tpl |-> tpl])

\* The scan commands' calls of get_chat_administrators.
AskAdmins(chat_id, user_id) == ApiCall("get_chat_administrators", chat_id, user_id)

\* The for loop of the two scan commands from entry i on, over the list the
\* command read: the ids in skipped are passed over, an API_ERROR result is
\* counted and passed over, a user found to be a bot is written as blocked.
\* The result is the set of [users, trace] the loop can end with.
RECURSIVE ScanLoop(_, _, _, _, _)
ScanLoop(U, list, i, skipped, t) ==
    IF i > Len(list) THEN {[users |-> U, trace |-> <<>>]}
    ELSE IF list[i].id \in skipped THEN ScanLoop(U, list, i + 1, skipped, t)
    ELSE UNION {
        LET user == list[i]
            scan_result == scan_user_for_bot(user.id, user_info)
            blocks == scan_result.reason # "API_ERROR" /\ scan_result.is_bot
            U1 == IF blocks
                  THEN add_blocked_user(U, user.id, user.name, user.username, None, t)
                  ELSE U
            tr == <<Lookup(user_info, scan_result)>>
                  \o (IF blocks THEN <<DbOp("add_blocked_user", user.id)>> ELSE <<>>)
        IN  {[users |-> rest.users, trace |-> tr \o rest.trace] :
                rest \in ScanLoop(U1, list, i + 1, skipped, t)} :
        user_info \in UserInfos}

\* CommandHandler.handle_scan_users_command
handle_scan_users_command(U, P, t, chat_id, user_id) ==
    UNION {
        IF ~is_user_admin(admins, user_id)
        THEN {Outcome(U, P, <<AskAdmins(chat_id, user_id), OnlyAdmins(chat_id)>>, None)}
        ELSE UNION {
            IF list = <<>>
            THEN {Outcome(U, P,
                      <<AskAdmins(chat_id, user_id), Notice(chat_id, "scan_starting"),
                        DbOp("get_all_users_for_scanning", user_id),
                        Notice(chat_id, "no_users")>>, None)}
            ELSE {Outcome(r.users, P,
                      <<AskAdmins(chat_id, user_id), Notice(chat_id, "scan_starting"),
                        DbOp("get_all_users_for_scanning", user_id),
                        Notice(chat_id, "scanning")>>
                      \o r.trace \o <<Notice(chat_id, "scan_results")>>, None) :
                      r \in ScanLoop(U, list, 1, {}, t)} :
            list \in get_all_users_for_scanning(U)} :
        admins \in AdminAnswers}

\* CommandHandler.handle_scan_all_chat_members_command: the administrators,
\* fetched a second time, and the bot itself are passed over.
handle_scan_all_chat_members_command(U, P, t, chat_id, user_id) ==
    UNION {
        IF ~is_user_admin(admins, user_id)
        THEN {Outcome(U, P, <<AskAdmins(chat_id, user_id), OnlyAdmins(chat_id)>>, None)}
        ELSE UNION {
            LET admin_ids == IF again.ok THEN again.ids ELSE {}
                head == <<AskAdmins(chat_id, user_id), Notice(chat_id, "scan_starting"),
                          ApiCall("get_chat_members_count", chat_id, user_id),
                          Notice(chat_id, "members_count"),
                          AskAdmins(chat_id, user_id), Notice(chat_id, "api_note"),
                          DbOp("get_all_users_for_scanning", user_id)>>
            IN  {Outcome(r.users, P,
                     head \o (IF list # <<>> THEN <<Notice(chat_id, "found_users")>>
                              ELSE <<>>)
                     \o r.trace \o <<Notice(chat_id, "scan_results")>>, None) :
                     r \in ScanLoop(U, list, 1, admin_ids \cup {BotUserId}, t)} :
            list \in get_all_users_for_scanning(U), again \in AdminAnswers} :
        admins \in AdminAnswers}

\* scan_users.py: the rows UserScanner.scan_all_users selects, newest first;
\* blocked rows are among them.
ScannedRow(id, r) ==
    [id |-> id, name |-> r.user_name, username |-> r.username, status |-> r.status]

\* A step of the scanner or a scan command is recorded like an event.
Scanned(kind, chat_id, user_id, out) ==
    /\ users' = out.users
    /\ pending' = out.pending
    /\ trace' = out.trace
    /\ raised' = out.raised
    /\ last' = Event(kind, chat_id, user_id, "", FALSE, None, <<>>)
    /\ before' = [users |-> users, pending |-> pending]
    /\ UNCHANGED <<now, first, listing, fresh, returns, loopvars>>

ScanUsersCommand ==
    /\ scan.pc = "idle"
    /\ \E chat_id \in ChatIds, user_id \in UserIds :
          \E out \in handle_scan_users_command(users, pending, now, chat_id, user_id) :
              Scanned("scan_users_command", chat_id, user_id, out)
    /\ UNCHANGED scan

ScanAllChatMembersCommand ==
    /\ scan.pc = "idle"
    /\ \E chat_id \in ChatIds, user_id \in UserIds :
          \E out \in handle_scan_all_chat_members_command(users, pending, now,
                                                          chat_id, user_id) :
              Scanned("scan_all_chat_members_command", chat_id, user_id, out)
    /\ UNCHANGED scan

\* scan_all_users reads its list over a connection of its own and closes it.
ScanAllUsersRead ==
    /\ scan.pc = "idle"
    /\ users # <<>>
    /\ \E s \in NewestFirst(users, DOMAIN users) :
          scan' = [pc |-> "loop",
                   users |-> [i \in DOMAIN s |-> ScannedRow(s[i], users[s[i]])],
                   pos |-> 0]
    /\ Scanned("scan_all_users_read", 0, 0,
               Outcome(users, pending, <<DbOp("select_users", 0)>>, None))

\* One turn of scan_all_users' loop: a row read as blocked is passed over; for
\* any other row get_user_info is awaited, a failed lookup is counted and
\* passed over, and a user found to be a bot is written as blocked.  The bot
\* is another process: it handles events between two turns and between the
\* scanner's read and its first turn.
ScanAllUsersStep ==
    /\ scan.pc = "loop"
    /\ LET row == scan.users[scan.pos + 1]
       IN  \/ /\ row.status = BLOCKED
              /\ Scanned("scan_all_users", 0, row.id,
                         Outcome(users, pending, <<>>, None))
           \/ /\ row.status # BLOCKED
              /\ \E user_info \in UserInfos :
                    LET found == is_likely_bot(user_info)
                        look == [op |-> "get_user_info", user_id |-> row.id,
                                 status |-> row.status,
                                 failed |-> user_info.kind # "user",
                                 is_bot |-> user_info.kind = "user" /\ found.is_bot,
                                 reason |-> found.reason]
                    IN  IF user_info.kind = "user" /\ found.is_bot
                        THEN Scanned("scan_all_users", 0, row.id,
                                 Outcome(add_blocked_user(users, row.id, row.name,
                                                          row.username, None, now),
                                         pending,
                                         <<look, DbOp("add_blocked_user", row.id)>>,
                                         None))
                        ELSE Scanned("scan_all_users", 0, row.id,
                                 Outcome(users, pending, <<look>>, None))
    /\ scan' = IF scan.pos + 1 = Len(scan.users) THEN NoScan
               ELSE [scan EXCEPT !.pos = scan.pos + 1]

\* While scans run, the bot handles joins, leaves and the answers of members
\* who are not flagged.
Answer ==
    \E chat_id \in ChatIds, user_id \in UserIds, text \in AnswerTexts :
        \E out \in handle_message(users, pending, now, chat_id, user_id, FALSE, text) :
            Handled(Event("message", chat_id, user_id, "", FALSE, None, text), out)

ScanNext ==
    \/ Join
    \/ Leave
    \/ Answer
    \/ ScanUsersCommand
    \/ ScanAllChatMembersCommand
    \/ ScanAllUsersRead
    \/ ScanAllUsersStep

SpecScan == Init /\ [][ScanNext]_vars

\* ------------------------------------------------- the bot in two chats
\* getUpdates is asked for every chat the bot is a member of: message["chat"]
\* ["id"] is whatever chat the update comes from.
Chats == ChatIds \cup {200}

JoinIn ==
    \E chat_id \in Chats, user_id \in UserIds, user_name \in Names,
       is_bot \in BOOLEAN, username \in Handles :
        \E out \in handle_new_member(users, pending, now, chat_id, user_id, user_name,
                                      is_bot, username) :
            Handled(Event("join", chat_id, user_id, user_name, is_bot, username, <<>>),
                    out)

LeaveIn ==
    \E chat_id \in Chats, user_id \in UserIds, user_name \in Names :
        \E out \in handle_left_member(users, pending, chat_id, user_id, user_name) :
            Handled(Event("leave", chat_id, user_id, user_name, FALSE, None, <<>>), out)

AnswerIn ==
    \E chat_id \in Chats, user_id \in UserIds, text \in AnswerTexts :
        \E out \in handle_message(users, pending, now, chat_id, user_id, FALSE, text) :
            Handled(Event("message", chat_id, user_id, "", FALSE, None, text), out)

ChatsNext == JoinIn \/ LeaveIn \/ AnswerIn

SpecChats == Init /\ [][ChatsNext]_vars

\* ------------------------------------- telegram_bot.py: requests that fail
\* A request of API method e.op that raised: the methods catch nothing, so an
\* httpx.ConnectError (or a response that is not JSON) leaves the handler.
RequestFailed(e) == [op |-> "failed", call |-> e.op, chat_id |-> e.chat_id]

\* The ways the handling that would end with outcome out ends when one of its
\* requests raises: everything before the request has happened, the request
\* has not, and nothing after it does.
RequestFailures(U, P, out) ==
    {LET done == SubSeq(out.trace, 1, k - 1)
         s == Committed(U, P, out, done)
     IN  Outcome(s.users, s.pending, Append(done, RequestFailed(out.trace[k])),
                 "ConnectError") :
     k \in {j \in DOMAIN out.trace : out.trace[j].op \in AwaitedOps}}

\* The outcomes of a handler when any one request may fail.
OnOutage(U, P, outs) ==
    outs \cup UNION {RequestFailures(U, P, out) : out \in outs}

JoinOnOutage ==
    \E chat_id \in ChatIds, user_id \in UserIds, user_name \in Names,
       is_bot \in BOOLEAN, username \in Handles :
        \E out \in OnOutage(users, pending,
                       handle_new_member(users, pending, now, chat_id, user_id,
                                         user_name, is_bot, username)) :
            Handled(Event("join", chat_id, user_id, user_name, is_bot, username, <<>>),
                    out)

AnswerOnOutage ==
    \E chat_id \in ChatIds, user_id \in UserIds, text \in AnswerTexts :
        \E out \in OnOutage(users, pending,
                       handle_message(users, pending, now, chat_id, user_id, FALSE,
                                      text)) :
            Handled(Event("message", chat_id, user_id, "", FALSE, None, text), out)

OutageNext == JoinOnOutage \/ Leave \/ AnswerOnOutage

SpecOutage == Init /\ [][OutageNext]_vars

\* ================================================================= claims
OutboundOps == {"send_message", "restrict_user", "unrestrict_user", "kick_chat_member"}
StoreWriteOps == {"add_blocked_user", "add_verified_user", "add_pending_verification",
                  "remove_pending_verification", "remove_user"}
StoreReadOps == {"is_user_verified", "is_user_blocked", "get_pending_verification",
                 "get_user_counts", "get_blocked_users"}

\* How many entries of trace tr name operation op.
Count(tr, op) == Cardinality({i \in DOMAIN tr : tr[i].op = op})

\* How many messages of template tpl trace tr sends.
CountSent(tr, tpl) ==
    Cardinality({i \in DOMAIN tr : tr[i].op = "send_message" /\ tr[i].text.tpl = tpl})

\* The traces of all deliveries of the event handled last.
RunTrace == first.trace \o trace

HasRow(T, u) == u \in DOMAIN T
StatusIs(U, u, status) == u \in DOMAIN U /\ U[u].status = status

\* Text t is s with whitespace, and nothing else, around it.
IsPadded(t, s) ==
    \E i \in 1..(Len(t) + 1) :
        /\ i + Len(s) - 1 <= Len(t)
        /\ \A k \in 1..Len(s) : t[i + k - 1] = s[k]
        /\ \A k \in 1..Len(t) : (k < i \/ k > i + Len(s) - 1) => t[k] \in Whitespace

IsListCommand(t) ==
    \E n \in 1..Len(t) :
        /\ Lower(SubSeq(t, 1, n)) \in {BannedCommand, ListBannedCommand}
        /\ n < Len(t) => t[n + 1] \in Whitespace

\* C1: in every reachable state, a user's status is pending if and only if
\* the user has a challenge row.
C1_StatusChallengeCoupling ==
    \A u \in UserIds : StatusIs(users, u, PENDING) <=> HasRow(pending, u)

\* C2: a non-flagged Join handled twice in a row for a user who was not
\* verified and had no challenge leaves one challenge row, the one the first
\* handling wrote, and restrict_user is called once over the two handlings.
C2_JoinTwiceOneChallenge ==
    (/\ last.kind = "join" /\ ~last.is_bot /\ last.user_id # BotUserId
     /\ first.n = 2
     /\ ~StatusIs(first.users, last.user_id, VERIFIED)
     /\ ~HasRow(first.pending, last.user_id))
    => (/\ HasRow(before.pending, last.user_id)
        /\ HasRow(pending, last.user_id)
        /\ pending[last.user_id] = before.pending[last.user_id]
        /\ Count(first.trace, "restrict_user") = 1
        /\ Count(trace, "restrict_user") = 0)

C2_Witness ==
    /\ last.kind = "join" /\ ~last.is_bot /\ last.user_id # BotUserId
    /\ first.n = 2
    /\ ~HasRow(first.users, last.user_id)
    /\ ~HasRow(first.pending, last.user_id)
    /\ HasRow(pending, last.user_id)
    /\ CountSent(trace, "welcome_message") = 1

\* C3: a non-flagged, non-command Message from a user with a challenge row
\* verifies the user, deletes the row and calls unrestrict_user once when the
\* text is the expected answer with nothing but whitespace around it; any
\* other text changes neither table and calls unrestrict_user not at all.
C3_AnswerDecides ==
    (/\ last.kind = "message" /\ ~last.is_bot
     /\ ~(last.text # <<>> /\ last.text[1] = "/")
     /\ HasRow(before.pending, last.user_id))
    => IF IsPadded(last.text, before.pending[last.user_id].answer)
       THEN /\ StatusIs(users, last.user_id, VERIFIED)
            /\ ~HasRow(pending, last.user_id)
            /\ Count(trace, "unrestrict_user") = 1
       ELSE /\ users = before.users
            /\ pending = before.pending
            /\ Count(trace, "unrestrict_user") = 0

\* A padded right answer has verified the user.
C3_Witness ==
    /\ last.kind = "message" /\ ~last.is_bot
    /\ HasRow(before.pending, last.user_id)
    /\ last.text = Padded(before.pending[last.user_id].answer)
    /\ StatusIs(users, last.user_id, VERIFIED)
    /\ Count(trace, "unrestrict_user") = 1

\* C4 as claimed: a flagged Join never creates a challenge row, ends with
\* status blocked, and over all deliveries of the event restrict_user,
\* kick_chat_member and the public notice are each issued exactly once,
\* from any prior state of the user.
C4_FlaggedJoinExactlyOnce ==
    (last.kind = "join" /\ last.is_bot /\ last.user_id # BotUserId)
    => (/\ StatusIs(users, last.user_id, BLOCKED)
        /\ pending = first.pending
        /\ Count(RunTrace, "restrict_user") = 1
        /\ Count(RunTrace, "kick_chat_member") = 1
        /\ CountSent(RunTrace, "bot_detected_message") = 1)

\* C4 amended: a flagged Join never creates a challenge row and ends with
\* status blocked; over all deliveries of the event restrict_user,
\* kick_chat_member and the public notice are each issued exactly once when
\* the user was not blocked before the first delivery, and not at all when
\* the user was already blocked.
C4_FlaggedJoinOnceUnlessBlocked ==
    (last.kind = "join" /\ last.is_bot /\ last.user_id # BotUserId)
    => LET n == IF StatusIs(first.users, last.user_id, BLOCKED) THEN 0 ELSE 1
       IN  /\ StatusIs(users, last.user_id, BLOCKED)
           /\ pending = first.pending
           /\ Count(RunTrace, "restrict_user") = n
           /\ Count(RunTrace, "kick_chat_member") = n
           /\ CountSent(RunTrace, "bot_detected_message") = n

\* A flagged Join of a verified user was delivered twice.
C4_Witness ==
    /\ last.kind = "join" /\ last.is_bot /\ last.user_id # BotUserId
    /\ first.n = 2
    /\ StatusIs(first.users, last.user_id, VERIFIED)
    /\ StatusIs(users, last.user_id, BLOCKED)
    /\ Count(first.trace, "kick_chat_member") = 1
    /\ Count(trace, "kick_chat_member") = 0

\* C5: after a Leave of a blocked user neither a users row nor a challenge
\* row of that user exists, also when the blocked user had a challenge row;
\* after a Leave of a verified user the users row is as it was.
C5_LeaveCleanup ==
    (last.kind = "leave")
    => (/\ StatusIs(before.users, last.user_id, BLOCKED)
           => (/\ ~HasRow(users, last.user_id)
               /\ ~HasRow(pending, last.user_id)
               /\ raised = None)
        /\ StatusIs(before.users, last.user_id, VERIFIED)
           => (/\ HasRow(users, last.user_id)
               /\ users[last.user_id] = before.users[last.user_id]))

\* A blocked user who still had a challenge row has left.
C5_Witness ==
    /\ last.kind = "leave"
    /\ StatusIs(before.users, last.user_id, BLOCKED)
    /\ HasRow(before.pending, last.user_id)
    /\ ~HasRow(users, last.user_id)
    /\ ~HasRow(pending, last.user_id)

\* C6: handling a Join, Leave or Message of the bot's own id issues no
\* outbound call and makes no store write, and the self check comes before
\* any other rule, so that the handling touches neither store nor platform.
C6_SelfEventsIgnored ==
    (last.kind \in {"join", "leave", "message"} /\ last.user_id = BotUserId)
    => (/\ \A i \in DOMAIN trace : trace[i].op \notin OutboundOps \cup StoreWriteOps
        /\ users = before.users
        /\ pending = before.pending
        /\ trace = <<>>)

\* The caller of the list command is no administrator at step i of the trace.
Refused(i) ==
    /\ trace[i].op = "get_chat_administrators"
    /\ (~trace[i].result.ok \/ last.user_id \notin trace[i].result.ids)

Admitted(i) ==
    /\ trace[i].op = "get_chat_administrators"
    /\ trace[i].result.ok
    /\ last.user_id \in trace[i].result.ids

\* C7: when the caller of the list command is not in the administrator list,
\* or the lookup fails, the bot sends the rejection notice and nothing else
\* and reads nothing from the store; get_blocked_users is called only after
\* an administrator check that passed.
C7_NonAdminReadsNothing ==
    /\ \A i \in DOMAIN trace :
          Refused(i) => trace = <<trace[i], OnlyAdmins(last.chat_id)>>
    /\ \A j \in DOMAIN trace :
          trace[j].op = "get_blocked_users" => \E i \in 1..(j - 1) : Admitted(i)

\* The list command of a caller whose lookup failed was refused while the
\* store held a blocked user.
C7_Witness ==
    /\ last.kind = "message" /\ IsListCommand(last.text)
    /\ trace # <<>> /\ Refused(1) /\ ~trace[1].result.ok
    /\ CountSent(trace, "only_admins") = 1
    /\ \E u \in UserIds : StatusIs(users, u, BLOCKED)

\* The user ids the list messages of trace tr name, in send order.
RECURSIVE ListedIds(_)
ListedIds(tr) ==
    IF tr = <<>> THEN <<>>
    ELSE (IF Head(tr).op = "send_message" /\ Head(tr).text.tpl = "banned_list"
          THEN Head(tr).text.entries ELSE <<>>) \o ListedIds(Tail(tr))

BlockedIds(U) == {u \in DOMAIN U : U[u].status = BLOCKED}

\* C8: when an administrator issues the list command in a message and the
\* store holds blocked users, the handling completes and the messages sent
\* list every blocked user once, newest first.
C8_AdminListsAll ==
    (/\ last.kind = "message" /\ ~last.is_bot /\ IsListCommand(last.text)
     /\ trace # <<>> /\ Admitted(1)
     /\ BlockedIds(before.users) # {})
    => LET ids == ListedIds(trace)
       IN  /\ raised = None
           /\ Len(ids) = Cardinality(BlockedIds(before.users))
           /\ {ids[i] : i \in DOMAIN ids} = BlockedIds(before.users)
           /\ \A i, j \in DOMAIN ids :
                 i < j => before.users[ids[i]].created_at
                              >= before.users[ids[j]].created_at

\* C9: every message the list command sends has at most TelegramLimit
\* characters, and a list longer than that is sent as more than one message.
C9_MessagesWithinLimit ==
    /\ \A i \in DOMAIN trace :
          (trace[i].op = "send_message"
           /\ trace[i].text.tpl \in {"banned_list", "only_admins", "no_banned"})
          => trace[i].text.len <= TelegramLimit
    /\ (last.kind # "none" /\ listing # <<>>
        /\ FullMessageLen(listing) > TelegramLimit)
       => CountSent(trace, "banned_list") > 1

\* What C10 compares: every user's status and challenge.
StoreView(U, P) ==
    [u \in UserIds |->
        [status |-> IF HasRow(U, u) THEN U[u].status ELSE "unknown",
         challenge |-> IF HasRow(P, u) THEN <<P[u].question, P[u].answer>> ELSE <<>>]]

\* C10: handling the same Join, Leave or Message twice in succession leaves
\* every user's status and every challenge as handling it once.
C10_TwiceAsOnce ==
    (last.kind \in {"join", "leave", "message"} /\ first.n >= 2)
    => StoreView(users, pending) = StoreView(before.users, before.pending)

\* The right answer of a pending user was delivered twice.
C10_Witness ==
    /\ last.kind = "message" /\ ~last.is_bot
    /\ first.n = 2
    /\ HasRow(first.pending, last.user_id)
    /\ last.text = first.pending[last.user_id].answer
    /\ StatusIs(before.users, last.user_id, VERIFIED)
    /\ StatusIs(users, last.user_id, VERIFIED)

\* C11: a non-flagged Join of a verified user sends nothing, calls no
\* restrict_user, creates no challenge row and leaves the users row as it
\* was; a Leave of a verified user leaves the user verified, so that this
\* holds again for the next Join, however often the user leaves and returns.
C11_VerifiedJoinNoOp ==
    /\ (/\ last.kind = "join" /\ ~last.is_bot
         /\ StatusIs(before.users, last.user_id, VERIFIED))
       => (/\ \A i \in DOMAIN trace : trace[i].op \notin OutboundOps \cup StoreWriteOps
           /\ users = before.users
           /\ pending = before.pending
           /\ ~HasRow(pending, last.user_id)
           /\ raised = None)
    /\ (/\ last.kind = "leave"
         /\ StatusIs(before.users, last.user_id, VERIFIED))
       => StatusIs(users, last.user_id, VERIFIED)
    /\ \A u \in UserIds : returns[u].n > 0 => StatusIs(users, u, VERIFIED)

\* A verified user has left and come back MaxCycles times, and the last Join
\* only looked the user up.
C11_Witness ==
    /\ last.kind = "join" /\ ~last.is_bot
    /\ returns[last.user_id].n = MaxCycles
    /\ ~returns[last.user_id].left
    /\ StatusIs(users, last.user_id, VERIFIED)
    /\ trace = <<DbOp("is_user_verified", last.user_id)>>

\* C12: the cursor never passes an update whose handling has not returned:
\* every update below offset, and every update the platform was told to
\* forget, has been handled to the end at least once; and the update that
\* the loop handles next is preceded only by such updates, so that after a
\* failed fetch or a raised exception the loop resumes at the failing update.
C12_CursorBehindFailure ==
    /\ \A i \in 1..MaxFeed :
          (UpdateId(i) < offset \/ UpdateId(i) < confirmed) => i \in completed
    /\ pc = "handle" => \A j \in 1..(updates[pos + 1] - 1) : j \in completed

\* The handling of an update raised, the update was fetched again, handled
\* to the end, and the cursor has moved past it.
C12_Witness ==
    \E i \in 1..MaxFeed :
        /\ i \in failed
        /\ i \in completed
        /\ offset > UpdateId(i)
        /\ boots = 0

\* C13: in one run of the process offset never decreases; a batch holds the
\* updates in feed order and is handled front to back, one update per turn;
\* whenever the loop has handled updates of a batch, offset is the update_id
\* of the last one handled plus one; and a fetch that returns no update moves
\* on to sleep(1), not to the error branch, with offset as it was.
C13_CursorMonotone ==
    /\ [](/\ \A k \in 1..(Len(updates) - 1) : updates[k] < updates[k + 1]
          /\ pos > 0 => offset = UpdateId(updates[pos]) + 1
          /\ pc = "sleep" => (updates = <<>> /\ response \in {"ok", "timeout"}))
    /\ [][/\ boots' = boots => offset' >= offset
          /\ pos' \in {0, pos, pos + 1}
          /\ (pc = "fetch" /\ pc' # pc /\ boots' = boots
              /\ response' \in {"ok", "timeout"} /\ updates' = <<>>)
             => (pc' = "sleep" /\ offset' = offset)]_vars

\* A batch of two updates has been handled to its end.
C13_Witness ==
    /\ Len(updates) = 2
    /\ pos = 2
    /\ pc = "fetch"
    /\ offset = UpdateId(updates[2]) + 1
    /\ completed = {1, 2}

\* C14: an update whose handling raises on every delivery (a message that
\* names no sender) is skipped: once its handling has raised, the cursor
\* eventually moves past it.
C14_PermanentFailureSkipped ==
    \A i \in 1..MaxFeed :
        (i \in failed /\ feed[i].kind = "message_without_from")
        ~> (offset > UpdateId(i))

\* The store call that the last handling ended with has failed, and it was a
\* call of method call.
FailedIn(call) ==
    /\ raised = "OperationalError"
    /\ trace # <<>>
    /\ trace[Len(trace)].op = "failed"
    /\ trace[Len(trace)].call = call

\* C15: when a store write of a handling fails, the handling has issued no
\* outbound call; and no handling of a non-flagged Join ends with
\* restrict_user called but the user not recorded pending with a challenge.
C15_NoPartialTransition ==
    /\ (\E w \in StoreWriteOps : FailedIn(w))
       => \A i \in DOMAIN trace : trace[i].op \notin OutboundOps
    /\ (last.kind = "join" /\ ~last.is_bot /\ Count(trace, "restrict_user") > 0)
       => (StatusIs(users, last.user_id, PENDING) /\ HasRow(pending, last.user_id))

\* C16: a failed add_pending_verification has written neither the users row
\* nor the challenge row.
C16_AddPendingAtomic ==
    FailedIn("add_pending_verification")
    => (users = before.users /\ pending = before.pending)

\* C17: no handling, failed or not, leaves a user verified with the challenge
\* row still there.
C17_ResolveAtomic ==
    \A u \in UserIds : ~(StatusIs(users, u, VERIFIED) /\ HasRow(pending, u))

\* C18: remove_user(id) deletes the users row and the challenge row of id
\* when the status of id is blocked, and changes neither table when the
\* status is pending or verified or id has no users row.
C18_RemoveUserOnlyIfBlocked ==
    (last.kind = "remove_user" /\ raised = None)
    => IF StatusIs(before.users, last.user_id, BLOCKED)
       THEN ~HasRow(users, last.user_id) /\ ~HasRow(pending, last.user_id)
       ELSE users = before.users /\ pending = before.pending

\* C19: remove_user(id) returns without error in every state of id, and
\* after it is_user_blocked(id) is false and get_pending_verification(id) is
\* None.
C19_RemoveUserAlwaysCleans ==
    (last.kind = "remove_user")
    => (/\ raised = None
        /\ ~is_user_blocked(users, last.user_id)
        /\ get_pending_verification(pending, last.user_id) = {})

\* C20: a restart of the process leaves both tables as they were; after it,
\* a non-flagged Join of a user who was verified at the restart and still is
\* restricts nobody, sends nothing and writes nothing, and a Message with the
\* expected answer of a challenge that was issued before the restart verifies
\* the user, deletes the challenge and calls unrestrict_user once.
C20_RestartKeepsTrust ==
    /\ last.kind = "restart" => (users = before.users /\ pending = before.pending)
    /\ (/\ boots > 0 /\ last.kind = "join" /\ ~last.is_bot
        /\ StatusIs(boot.users, last.user_id, VERIFIED)
        /\ StatusIs(before.users, last.user_id, VERIFIED))
       => (/\ \A i \in DOMAIN trace : trace[i].op \notin OutboundOps \cup StoreWriteOps
           /\ users = before.users
           /\ pending = before.pending)
    /\ \A u \in UserIds :
          (last.kind = "restart" /\ StatusIs(boot.users, u, BLOCKED))
          => is_user_blocked(users, u)
    /\ (/\ boots > 0 /\ last.kind = "message" /\ ~last.is_bot
        /\ HasRow(boot.pending, last.user_id)
        /\ HasRow(before.pending, last.user_id)
        /\ before.pending[last.user_id] = boot.pending[last.user_id]
        /\ last.text = boot.pending[last.user_id].answer)
       => (/\ StatusIs(users, last.user_id, VERIFIED)
           /\ ~HasRow(pending, last.user_id)
           /\ Count(trace, "unrestrict_user") = 1)

\* A user who was pending at the restart has answered the challenge issued
\* before it and is verified.
C20_Witness ==
    /\ boots = 1
    /\ last.kind = "message"
    /\ HasRow(boot.pending, last.user_id)
    /\ StatusIs(boot.users, last.user_id, PENDING)
    /\ last.text = boot.pending[last.user_id].answer
    /\ StatusIs(users, last.user_id, VERIFIED)
    /\ ~HasRow(pending, last.user_id)

\* ------------------------------------------------------------ C22 .. C25
StoreAdds == {"add_verified_user", "add_blocked_user", "add_pending_verification"}

StatusWritten(method) ==
    CASE method = "add_verified_user" -> VERIFIED
      [] method = "add_blocked_user" -> BLOCKED
      [] OTHER -> PENDING

\* C22: after a call that goes through upsert_user(id, name, s, ...) the id has
\* a users row and its status is s whatever it was before; is_user_verified
\* and is_user_blocked answer true exactly for status verified and status
\* blocked, are never both true, and are both false for an id with no row.
C22_UpsertLastWriteWins ==
    /\ last.kind \in StoreAdds =>
          /\ HasRow(users, last.user_id)
          /\ users[last.user_id].status = StatusWritten(last.kind)
          /\ is_user_verified(users, last.user_id) = (last.kind = "add_verified_user")
          /\ is_user_blocked(users, last.user_id) = (last.kind = "add_blocked_user")
    /\ \A u \in UserIds :
          /\ ~(is_user_verified(users, u) /\ is_user_blocked(users, u))
          /\ is_user_verified(users, u) = StatusIs(users, u, VERIFIED)
          /\ is_user_blocked(users, u) = StatusIs(users, u, BLOCKED)
          /\ ~HasRow(users, u) =>
                ~is_user_verified(users, u) /\ ~is_user_blocked(users, u)

\* A verified user was written as blocked, and another id has no row.
C22_Witness ==
    /\ last.kind = "add_blocked_user"
    /\ StatusIs(before.users, last.user_id, VERIFIED)
    /\ is_user_blocked(users, last.user_id)
    /\ ~is_user_verified(users, last.user_id)
    /\ \E u \in UserIds : ~HasRow(users, u)

IdsOf(list) == {list[i].id : i \in DOMAIN list}

IsNewestFirst(list) ==
    \A i, j \in DOMAIN list : i < j => list[i].created_at >= list[j].created_at

\* C23: get_blocked_users returns exactly the users rows of status blocked and
\* get_all_users_for_scanning exactly the rows of any other status; every row
\* is in one of the two lists and in one only, once; both lists are ordered by
\* created_at, newest first; each entry carries its row's fields.
C23_ListsPartitionRows ==
    \A b \in get_blocked_users(users), s \in get_all_users_for_scanning(users) :
        /\ IdsOf(b) = {u \in DOMAIN users : users[u].status = BLOCKED}
        /\ IdsOf(s) = {u \in DOMAIN users : users[u].status # BLOCKED}
        /\ IdsOf(b) \cup IdsOf(s) = DOMAIN users
        /\ IdsOf(b) \cap IdsOf(s) = {}
        /\ Len(b) + Len(s) = Cardinality(DOMAIN users)
        /\ IsNewestFirst(b) /\ IsNewestFirst(s)
        /\ \A i \in DOMAIN b : b[i].status = BLOCKED
                               /\ b[i].name = users[b[i].id].user_name
        /\ \A i \in DOMAIN s : s[i].status = users[s[i].id].status
                               /\ s[i].name = users[s[i].id].user_name

\* One blocked and one other row; and two rows of one list created at
\* different times.
C23_Witness ==
    /\ \E b \in get_blocked_users(users), s \in get_all_users_for_scanning(users) :
          Len(b) = 1 /\ Len(s) = 1
    /\ last.kind \in StoreAdds

C23_WitnessOrder ==
    \E s \in get_all_users_for_scanning(users) :
        Len(s) = 2 /\ s[1].created_at > s[2].created_at

RECURSIVE RowsOfStatus(_, _, _)
RowsOfStatus(U, status, n) ==
    IF n = 0 THEN 0
    ELSE RowsOfStatus(U, status, n - 1) + (IF StatusIs(U, n, status) THEN 1 ELSE 0)

\* C24: get_user_counts gives, for each status, the number of users rows of
\* that status, so the three numbers add up to the number of rows; as long as
\* every call so far was add_verified_user, add_blocked_user or
\* add_pending_verification on an id not used before, the pending count equals
\* the pending_verifications count.
C24_CountsAddUp ==
    LET counts == get_user_counts(users, pending) IN
    /\ counts.verified = RowsOfStatus(users, VERIFIED, MaxUserId)
    /\ counts.blocked = RowsOfStatus(users, BLOCKED, MaxUserId)
    /\ counts.pending = RowsOfStatus(users, PENDING, MaxUserId)
    /\ counts.verified + counts.blocked + counts.pending = Cardinality(DOMAIN users)
    /\ counts.pending_verifications = Cardinality(DOMAIN pending)
    /\ fresh => counts.pending = counts.pending_verifications

\* Two adds on two ids, one of them add_pending_verification.
C24_Witness ==
    /\ fresh
    /\ Cardinality(DOMAIN users) = 2
    /\ get_user_counts(users, pending).pending = 1
    /\ get_user_counts(users, pending).pending_verifications = 1

\* C25: after add_pending_verification(id, chat, name, q, a),
\* get_pending_verification(id) returns q and a, also when the id had a
\* challenge before; after remove_pending_verification(id) it returns None, and
\* the users table and the other challenge rows are as they were.
C25_ChallengeRoundTrip ==
    /\ last.kind = "add_pending_verification" =>
          \A d \in {trace[1].args} :
              get_pending_verification(pending, last.user_id) =
                  {PendingRow(last.chat_id, last.user_name, d[1], d[2])}
    /\ last.kind = "remove_pending_verification" =>
          /\ get_pending_verification(pending, last.user_id) = {}
          /\ users = before.users
          /\ \A u \in UserIds \ {last.user_id} :
                get_pending_verification(pending, u) =
                    get_pending_verification(before.pending, u)

\* The call replaced a challenge with another answer.
C25_Witness ==
    /\ last.kind = "add_pending_verification"
    /\ HasRow(before.pending, last.user_id)
    /\ before.pending[last.user_id].answer # trace[1].args[2]
    /\ pending[last.user_id].answer = trace[1].args[2]

\* The call removed the challenge of a user whose row stays pending.
C25_WitnessRemoved ==
    /\ last.kind = "remove_pending_verification"
    /\ HasRow(before.pending, last.user_id)
    /\ StatusIs(users, last.user_id, PENDING)
    /\ get_pending_verification(pending, last.user_id) = {}

\* ------------------------------------------------------------ C26 .. C30
IsCommandText(t) == t # <<>> /\ t[1] = "/"

StoreOpsIn(tr, ops) == {i \in DOMAIN tr : tr[i].op \in ops}

\* C26: the handling of a join of a member who is not flagged as a bot and has
\* a challenge row leaves both tables as they were, writes nothing to the
\* store, does not call restrict_user, and sends one welcome message, which
\* carries the stored question.
C26_RejoinResendsStoredQuestion ==
    (/\ last.kind = "join" /\ ~last.is_bot
     /\ HasRow(before.pending, last.user_id))
    => (/\ users = before.users
        /\ pending = before.pending
        /\ StoreOpsIn(trace, StoreWriteOps) = {}
        /\ Count(trace, "restrict_user") = 0
        /\ Count(trace, "send_message") = 1
        /\ \A i \in DOMAIN trace : trace[i].op = "send_message" =>
              /\ trace[i].text.tpl = "welcome_message"
              /\ trace[i].text.question = before.pending[last.user_id].question)

\* A member who was challenged, answered wrongly and then joined again.
C26_Witness ==
    /\ last.kind = "join" /\ ~last.is_bot
    /\ first.n = 1
    /\ HasRow(before.pending, last.user_id)
    /\ pending = before.pending
    /\ CountSent(trace, "welcome_message") = 1

\* C27: the handling of a message that is not a command, from a sender who is
\* not flagged as a bot and has a challenge row, with a text that is not the
\* expected answer with whitespace around it, leaves both tables as they were,
\* writes nothing to the store, does not call unrestrict_user, and sends one
\* message: the retry notice with the stored question.
C27_WrongAnswerChangesNothing ==
    (/\ last.kind = "message" /\ ~last.is_bot
     /\ ~IsCommandText(last.text)
     /\ HasRow(before.pending, last.user_id)
     /\ ~IsPadded(last.text, before.pending[last.user_id].answer))
    => (/\ users = before.users
        /\ pending = before.pending
        /\ StoreOpsIn(trace, StoreWriteOps) = {}
        /\ Count(trace, "unrestrict_user") = 0
        /\ Count(trace, "send_message") = 1
        /\ \A i \in DOMAIN trace : trace[i].op = "send_message" =>
              /\ trace[i].text.tpl = "error_message"
              /\ trace[i].text.question = before.pending[last.user_id].question)

\* A pending sender gave another captcha's answer.
C27_Witness ==
    /\ last.kind = "message" /\ ~last.is_bot
    /\ HasRow(before.pending, last.user_id)
    /\ last.text \in AnswerTexts
    /\ last.text # before.pending[last.user_id].answer
    /\ StatusIs(users, last.user_id, PENDING)
    /\ CountSent(trace, "error_message") = 1

\* C28: the handling of a message whose sender is flagged as a bot makes no
\* store call and no outbound call and leaves both tables as they were, in
\* every store state and for every text.
C28_BotMessagesIgnored ==
    (last.kind = "message" /\ last.is_bot)
    => (/\ trace = <<>>
        /\ raised = None
        /\ users = before.users
        /\ pending = before.pending)

\* A flagged sender with a challenge row sent the expected answer.
C28_Witness ==
    /\ last.kind = "message" /\ last.is_bot
    /\ HasRow(before.pending, last.user_id)
    /\ last.text = before.pending[last.user_id].answer
    /\ HasRow(pending, last.user_id)
    /\ ~StatusIs(users, last.user_id, VERIFIED)

\* C29: the handling of a message whose text starts with "/" does not read
\* the sender's challenge; when the sender has a challenge row, both tables
\* stay as they were and neither the success notice nor the retry notice is
\* sent.
C29_CommandsNotAnswers ==
    (/\ last.kind = "message" /\ IsCommandText(last.text)
     /\ HasRow(before.pending, last.user_id))
    => (/\ users = before.users
        /\ pending = before.pending
        /\ Count(trace, "get_pending_verification") = 0
        /\ Count(trace, "unrestrict_user") = 0
        /\ CountSent(trace, "success_message") = 0
        /\ CountSent(trace, "error_message") = 0)

\* A pending sender who is not flagged sent the list command and it was
\* routed to the command handler.
C29_Witness ==
    /\ last.kind = "message" /\ ~last.is_bot
    /\ last.text = BannedCommand
    /\ StatusIs(before.users, last.user_id, PENDING)
    /\ HasRow(before.pending, last.user_id)
    /\ Count(trace, "get_chat_administrators") = 1
    /\ pending = before.pending

\* C30: after the handling of a left_chat_member event the user has no users
\* row or a row of status verified.
C30_LeftUserUnknownOrVerified ==
    last.kind = "leave" =>
        \/ ~HasRow(users, last.user_id)
        \/ StatusIs(users, last.user_id, VERIFIED)

\* ------------------------------------------------------------------- C21
\* C21: when run has stopped, the handling that ran last was not cut short:
\* it did not end in CancelledError, and if it was the handling of a join of
\* a member not flagged as a bot and restrict_user was called in it, the
\* member is recorded pending with a challenge and the welcome message was
\* sent.
C21_StopsBetweenIterations ==
    pc = "stopped" =>
        /\ raised # "CancelledError"
        /\ (last.kind = "join" /\ ~last.is_bot /\ Count(trace, "restrict_user") > 0)
           => (/\ StatusIs(users, last.user_id, PENDING)
               /\ HasRow(pending, last.user_id)
               /\ CountSent(trace, "welcome_message") = 1)

\* ------------------------------------------------------------ C31 .. C40
ScanKinds == {"scan_users_command", "scan_all_chat_members_command", "scan_all_users"}

\* The scan handled last wrote the row of user u.
ScanWrote(u) ==
    \E i \in DOMAIN trace : trace[i].op = "add_blocked_user" /\ trace[i].user_id = u

\* The scan handled last looked user u up and the lookup failed.
LookupFailed(u) ==
    \E i \in DOMAIN trace :
        /\ trace[i].op \in {"scan_user_for_bot", "get_user_info"}
        /\ trace[i].user_id = u
        /\ trace[i].failed

\* C31: a step of a scan changes a users row only from status pending or
\* verified to status blocked: it creates no row, leaves every status other
\* than the ones it blocks as it was, and writes no row whose status was
\* blocked already.
C31_ScanOnlyBlocksUnblocked ==
    last.kind \in ScanKinds =>
        \A u \in UserIds :
            /\ HasRow(users, u) => HasRow(before.users, u)
            /\ (HasRow(users, u) /\ HasRow(before.users, u)
                /\ users[u].status # before.users[u].status)
               => (/\ before.users[u].status \in {PENDING, VERIFIED}
                   /\ users[u].status = BLOCKED)
            /\ ScanWrote(u) => ~StatusIs(before.users, u, BLOCKED)

\* C32: scan_user_for_bot answers is_bot = False for every failed lookup, and
\* a scan that looked a user up and got a failure has not written that user's
\* row: both tables hold for that user what they held before.
C32_DetectorFailsOpen ==
    /\ \A u \in UserIds, user_info \in {NoResponse, ApiError} :
          /\ ~scan_user_for_bot(u, user_info).is_bot
          /\ scan_user_for_bot(u, user_info).reason = "API_ERROR"
    /\ last.kind \in ScanKinds =>
          \A u \in UserIds :
              LookupFailed(u) =>
                  /\ ~ScanWrote(u)
                  /\ HasRow(users, u) = HasRow(before.users, u)
                  /\ HasRow(users, u) => users[u] = before.users[u]
                  /\ pending = before.pending

\* A scan command looked a pending user up, the lookup failed, and the user
\* is still pending.
C32_Witness ==
    /\ last.kind = "scan_users_command"
    /\ \E u \in UserIds :
          /\ LookupFailed(u)
          /\ StatusIs(before.users, u, PENDING)
          /\ StatusIs(users, u, PENDING)

\* C40: when scan_all_users writes status blocked for a user, the user's row
\* is there and has the status the scanner read in its list.
C40_ScannerWritesWhatItRead ==
    last.kind = "scan_all_users" =>
        \A i \in DOMAIN trace :
            (trace[i].op = "get_user_info" /\ ScanWrote(trace[i].user_id))
            => StatusIs(before.users, trace[i].user_id, trace[i].status)

\* C33: after the handling of a message from a sender who is not flagged as a
\* bot and had no users row, the sender has a users row.
C33_MessageCreatesRow ==
    (last.kind = "message" /\ ~last.is_bot /\ ~HasRow(before.users, last.user_id))
    => HasRow(users, last.user_id)

\* C34: the handling of a join or of a message leaves a user whose status was
\* blocked at status blocked.
C34_BlockedStaysBlocked ==
    (last.kind \in {"join", "message"} /\ StatusIs(before.users, last.user_id, BLOCKED))
    => StatusIs(users, last.user_id, BLOCKED)

\* C35: unrestrict_user is called only in the handling of a message that is
\* not a command, from a sender not flagged as a bot, for that sender, when
\* the sender had a challenge row and the text is its expected answer with at
\* most whitespace around it; and where that handling records the sender
\* verified, the unrestrict_user call comes before the record.
C35_UnrestrictOnlyOnAnswer ==
    /\ \A i \in DOMAIN trace :
          trace[i].op = "unrestrict_user" =>
              /\ last.kind = "message" /\ ~last.is_bot
              /\ ~IsCommandText(last.text)
              /\ trace[i].user_id = last.user_id
              /\ HasRow(before.pending, last.user_id)
              /\ IsPadded(last.text, before.pending[last.user_id].answer)
    /\ last.kind = "message" =>
          \A j \in DOMAIN trace :
              trace[j].op = "add_verified_user" =>
                  \E i \in 1..(j - 1) :
                      /\ trace[i].op = "unrestrict_user"
                      /\ trace[i].user_id = trace[j].user_id

\* The expected answer, as it is, lifted the restriction and then verified
\* the sender.
C35_Witness ==
    /\ last.kind = "message" /\ ~last.is_bot
    /\ HasRow(before.pending, last.user_id)
    /\ last.text = before.pending[last.user_id].answer
    /\ \E i, j \in DOMAIN trace :
          /\ i < j
          /\ trace[i].op = "unrestrict_user"
          /\ trace[j].op = "add_verified_user"

\* C39: when the handling of an event changes the status of a user who had a
\* row, the row keeps its created_at, username and chat_id.
C39_StatusChangeKeepsOrigin ==
    (/\ last.kind \in {"join", "message"}
     /\ HasRow(before.users, last.user_id) /\ HasRow(users, last.user_id)
     /\ users[last.user_id].status # before.users[last.user_id].status)
    => (/\ users[last.user_id].created_at = before.users[last.user_id].created_at
        /\ users[last.user_id].username = before.users[last.user_id].username
        /\ ToString(users[last.user_id].chat_id)
               = ToString(before.users[last.user_id].chat_id))

\* C36: the unrestrict_user call made for a correct answer names the chat
\* recorded in the sender's challenge row, whatever chat the message came from.
C36_UnrestrictsChallengeChat ==
    (last.kind = "message" /\ HasRow(before.pending, last.user_id))
    => \A i \in DOMAIN trace :
           trace[i].op = "unrestrict_user"
           => trace[i].chat_id = before.pending[last.user_id].chat_id

\* C37: when a delivery of a flagged join is handled without error after an
\* earlier delivery of the same event recorded the member blocked and then
\* failed, the deliveries together have issued kick_chat_member for the member
\* and the public notice.
C37_RedeliveryKicks ==
    (/\ last.kind = "join" /\ last.is_bot
     /\ raised = None
     /\ ~is_user_blocked(first.users, last.user_id)
     /\ \E i \in DOMAIN first.trace :
            /\ first.trace[i].op = "add_blocked_user"
            /\ first.trace[i].user_id = last.user_id)
    => /\ \E i \in DOMAIN RunTrace :
              /\ RunTrace[i].op = "kick_chat_member"
              /\ RunTrace[i].user_id = last.user_id
       /\ \E i \in DOMAIN RunTrace :
              /\ RunTrace[i].op = "send_message"
              /\ RunTrace[i].text.tpl = "bot_detected_message"

IsListMessage(e) == e.op = "send_message" /\ e.text.tpl = "banned_list"

\* The list messages of trace tr, in send order.
ListMessages(tr) == SelectSeq(tr, IsListMessage)

\* How many entries the list messages before the k-th hold.
RECURSIVE EntriesBefore(_, _)
EntriesBefore(msgs, k) ==
    IF k = 1 THEN 0
    ELSE EntriesBefore(msgs, k - 1) + Len(msgs[k - 1].text.entries)

\* len() of entries a..b of the list, each as a whole.
LinesLen(blocked_users, a, b) == SumLines(blocked_users, a) - SumLines(blocked_users, b + 1)

\* C38: when the list is sent as several messages, the entries of the
\* messages in send order are the entries of the list in list order, and each
\* message is its header followed by its entries, each in full.
C38_SplitKeepsEntries ==
    LET msgs == ListMessages(trace)
    IN  (last.kind = "list_banned" /\ Len(msgs) > 1)
        => /\ ListedIds(trace) = [i \in 1..Len(listing) |-> listing[i].id]
           /\ \A k \in DOMAIN msgs :
                  LET off == EntriesBefore(msgs, k)
                      n == Len(msgs[k].text.entries)
                  IN  /\ msgs[k].text.continued = (k > 1)
                      /\ off + n <= Len(listing)
                      /\ msgs[k].text.len
                             = (IF k > 1 THEN ContinuedHeaderLen ELSE HeaderLen)
                               + LinesLen(listing, off + 1, off + n)

\* A list of two entries went out as two messages of one entry each.
C38_Witness ==
    LET msgs == ListMessages(trace)
    IN  /\ last.kind = "list_banned"
        /\ Len(listing) = MaxEntries
        /\ Len(msgs) = 2
        /\ msgs[1].text.entries = <<listing[1].id>>
        /\ msgs[2].text.entries = <<listing[2].id>>

====
